---- MODULE Spec2Model ----
(***************************************************************************)
(* Model of the real-time simulation core of keyboard3/trading:            *)
(*   core_engine/portfolio.py       MockPortfolio                          *)
(*   core_engine/risk_manager.py    check_* / evaluate_all_risks           *)
(*   core_engine/trading_engine.py  MockTradingEngine                      *)
(*   core_engine/realtime_feed.py   MockRealtimeDataProvider               *)
(*   core_engine/realtime_klines_aggregator.py  RealtimeKlinesAggregator   *)
(*   strategies/simple_ma_strategy.py           RealtimeSimpleMAStrategy   *)
(*                                                                         *)
(* Python floats are modelled by exact numbers: cash, prices and values    *)
(* are integers (the inputs are drawn from integers), average cost and     *)
(* P&L are reduced fractions [n, d].  Percent limits are integers out of   *)
(* 100 and ratio tests are done by cross-multiplication.  Alert messages   *)
(* and wall-clock timestamps of alerts are left out.                       *)
(***************************************************************************)
EXTENDS Integers, Sequences, FiniteSets, TLC

VARIABLES
    portfolio,            \* MockPortfolio: cash, peak_portfolio_value, holdings, realized_pnl, verbose
    market_prices,        \* the table behind the engine's current_price_provider_callback
    engine_config,        \* MockTradingEngine: fixed_trade_quantity, risk_parameters, has_callback
    trade_log,            \* MockTradingEngine.trade_log
    trade_id_counter,     \* MockTradingEngine._trade_id_counter
    active_risk_alerts,   \* MockTradingEngine.active_risk_alerts
    ntx,                  \* number of transactions applied so far (bounds the run)
    last,                 \* the call that has just returned (its arguments, the portfolio
                          \* before it, what it returned), or idle once the caller has moved on
    feed,                 \* MockRealtimeDataProvider: _running, _thread, the tick-loop
                          \* threads it has created, and its caller's position
    klines,               \* RealtimeKlinesAggregator: _current_klines, the ticks folded
                          \* into each current bar, and the last call
    strategy,             \* RealtimeSimpleMAStrategy: its windows, prices, moving averages,
                          \* current_signal, and the last tick with the events it sent
    twin,                 \* a second RealtimeSimpleMAStrategy, fed the same prices as
                          \* strategy
    signals,              \* per tick of the end-to-end and twin runs: its price, the
                          \* strategy's current_signal after it, and the events it sent
    rsi,                  \* RealtimeRSIStrategy: its period, thresholds, price_history,
                          \* RSI values,
                          \* ticks_received, and the last tick with the event it sent
    simulation_components,
                          \* main_api.simulation_components: portfolio and engine by the
                          \* id of the run that created them
    event_loop,           \* the asyncio loop of the API: its tasks, its queue of ready
                          \* steps, the run ids and requests used up
    snapshots,            \* every simulation_state.json written: the run id of its
                          \* directory, the portfolio and engine in it, and its writer
    response              \* the last request handled: its status, and the components
                          \* before it

vars == <<portfolio, market_prices, engine_config, trade_log, trade_id_counter,
          active_risk_alerts, ntx, last, feed, klines, strategy, twin, signals,
          rsi, simulation_components, event_loop, snapshots, response>>

----------------------------------------------------------------------------
(* Bounds and input sets *)

MaxTx == 3

Symbols == {"X", "Y"}
InitialCashValues == {0, 6}
Quantities == {-1, 0, 1, 2}
TxPrices == {-1, 0, 1, 3}
TransactionTypes == {"BUY", "SELL", "buy", "HOLD"}
RiskPercents == {0, 25, 50}

----------------------------------------------------------------------------
(* Exact fractions standing for Python floats *)

Abs(x) == IF x < 0 THEN -x ELSE x

RECURSIVE GCD(_, _)
GCD(a, b) == IF b = 0 THEN a ELSE GCD(b, a % b)

\* the reduced fraction n/d, d > 0
Rat(n, d) ==
    LET g == GCD(Abs(n), d)
    IN  IF n = 0 THEN [n |-> 0, d |-> 1] ELSE [n |-> n \div g, d |-> d \div g]

RInt(k) == [n |-> k, d |-> 1]
RAdd(a, b) == Rat(a.n * b.d + b.n * a.d, a.d * b.d)
RScale(a, k) == Rat(a.n * k, a.d)
RDivInt(a, k) == Rat(a.n, a.d * k)
RSub(a, b) == RAdd(a, RScale(b, -1))

----------------------------------------------------------------------------
(* Price lookups: a callback returns a price or None *)

None == [ok |-> FALSE, price |-> 0]
Some(p) == [ok |-> TRUE, price |-> p]
LookupValues == {None, Some(0), Some(1), Some(3)}

\* a current_price_callback argument: absent, or a table symbol -> lookup result
NoCallback == [set |-> FALSE, f |-> [s \in Symbols |-> None]]
Callback(f) == [set |-> TRUE, f |-> f]
Callbacks == {NoCallback} \cup {Callback(f) : f \in [Symbols -> LookupValues]}

ValidPriceZeroAllowed(cp) == cp.ok /\ cp.price >= 0

\* "current_price is not None and current_price > 0"
ValidPrice(cp) == cp.ok /\ cp.price > 0

----------------------------------------------------------------------------
(* MockPortfolio *)

\* holdings is a Python dict: entries in insertion order, one per symbol
IndexOf(h, s) ==
    IF \E i \in 1..Len(h) : h[i].symbol = s
    THEN CHOOSE i \in 1..Len(h) : h[i].symbol = s
    ELSE 0

\* self.holdings.get(symbol): truthy exactly when the key is present
HasPosition(h, s) == IndexOf(h, s) # 0
PositionOf(h, s) == h[IndexOf(h, s)]
QuantityHeld(h, s) == IF HasPosition(h, s) THEN PositionOf(h, s).quantity ELSE 0

RemoveAt(h, i) == [j \in 1..(Len(h) - 1) |-> IF j < i THEN h[j] ELSE h[j + 1]]

\* MockPortfolio.__init__
NewPortfolio(initial_cash, verbose) ==
    [cash |-> initial_cash,
     peak_portfolio_value |-> initial_cash,
     holdings |-> <<>>,
     realized_pnl |-> RInt(0),
     verbose |-> verbose]

\* transaction_type.upper()
Upper(t) == CASE t = "buy" -> "BUY" [] t = "sell" -> "SELL" [] OTHER -> t

InvalidArgumentsZeroAllowed(quantity, price) == quantity < 0 \/ price < 0

\* the argument checks at the top of record_transaction
InvalidArguments(quantity, price) == quantity <= 0 \/ price <= 0

InsufficientCashOffByOne(cash, cost) == cash < cost - 1
InsufficientCashEmptyOnly(cash, cost) == cash <= 0

\* "if self.cash < cost_or_proceeds"
InsufficientCash(cash, cost) == cash < cost

InsufficientSharesPresenceOnly(h, symbol, quantity) == ~HasPosition(h, symbol)

\* "if not current_position or current_position['quantity'] < quantity"
InsufficientShares(h, symbol, quantity) ==
    ~HasPosition(h, symbol) \/ PositionOf(h, symbol).quantity < quantity

NewAverageCostUnweighted(avg, current_quantity, quantity, price) ==
    RDivInt(RAdd(avg, RInt(price)), 2)

\* new_average_cost = (current_avg_cost * current_quantity + cost) / new_total_quantity
NewAverageCost(avg, current_quantity, quantity, price) ==
    RDivInt(RAdd(RScale(avg, current_quantity), RInt(quantity * price)),
            current_quantity + quantity)

\* the BUY branch after the cash check
ApplyBuy(pf, symbol, quantity, price) ==
    LET h == pf.holdings
        i == IndexOf(h, symbol)
        newh == IF i # 0
                THEN [h EXCEPT ![i] =
                        [symbol |-> symbol,
                         quantity |-> h[i].quantity + quantity,
                         average_cost_price |->
                            NewAverageCost(h[i].average_cost_price, h[i].quantity,
                                           quantity, price)]]
                ELSE Append(h, [symbol |-> symbol, quantity |-> quantity,
                                average_cost_price |-> RInt(price)])
    IN  [pf EXCEPT !.cash = pf.cash - quantity * price, !.holdings = newh]

\* "del self.holdings[symbol]" sits inside "if self.verbose:"
DeletesEmptyHolding(verbose, remaining) == verbose /\ remaining = 0

TransactionRealizedPnlOfProceeds(avg, quantity, price) == RInt(price * quantity)

\* transaction_realized_pnl = (price - avg_cost_price) * quantity
TransactionRealizedPnl(avg, quantity, price) ==
    RScale(RSub(RInt(price), avg), quantity)

\* the SELL branch after the share check
ApplySell(pf, symbol, quantity, price) ==
    LET h == pf.holdings
        i == IndexOf(h, symbol)
        avg == h[i].average_cost_price
        pnl == TransactionRealizedPnl(avg, quantity, price)
        remaining == h[i].quantity - quantity
        newh == IF DeletesEmptyHolding(pf.verbose, remaining)
                THEN RemoveAt(h, i)
                ELSE [h EXCEPT ![i].quantity = remaining]
    IN  [pf EXCEPT !.realized_pnl = RAdd(pf.realized_pnl, pnl),
                   !.cash = pf.cash + quantity * price,
                   !.holdings = newh]

\* MockPortfolio.record_transaction: the return value and the portfolio after
record_transaction(pf, symbol, transaction_type, quantity, price) ==
    IF InvalidArguments(quantity, price)
    THEN [ret |-> FALSE, pf |-> pf]
    ELSE IF Upper(transaction_type) = "BUY"
    THEN IF InsufficientCash(pf.cash, quantity * price)
         THEN [ret |-> FALSE, pf |-> pf]
         ELSE [ret |-> TRUE, pf |-> ApplyBuy(pf, symbol, quantity, price)]
    ELSE IF Upper(transaction_type) = "SELL"
    THEN IF InsufficientShares(pf.holdings, symbol, quantity)
         THEN [ret |-> FALSE, pf |-> pf]
         ELSE [ret |-> TRUE, pf |-> ApplySell(pf, symbol, quantity, price)]
    ELSE [ret |-> FALSE, pf |-> pf]

\* one holding's term in get_holdings_value
HoldingMarketValue(entry, cp) ==
    IF ValidPrice(cp) THEN entry.quantity * cp.price ELSE 0

RECURSIVE SumMarketValue(_, _)
SumMarketValue(h, f) ==
    IF h = <<>> THEN 0
    ELSE HoldingMarketValue(Head(h), f[Head(h).symbol]) + SumMarketValue(Tail(h), f)

\* MockPortfolio.get_holdings_value
get_holdings_value(pf, cb) ==
    IF ~cb.set THEN 0 ELSE SumMarketValue(pf.holdings, cb.f)

NewPeakAlwaysAssigned(peak, total_value) == total_value

\* "if total_value > self.peak_portfolio_value: self.peak_portfolio_value = total_value"
NewPeak(peak, total_value) == IF total_value > peak THEN total_value ELSE peak

GetTotalPortfolioValueMarkingCash(pf, cb) ==
    LET total_value == pf.cash + get_holdings_value(pf, cb)
    IN  [ret |-> total_value,
         pf |-> [pf EXCEPT !.cash = total_value,
                           !.peak_portfolio_value =
                              NewPeak(pf.peak_portfolio_value, total_value)]]

\* MockPortfolio.get_total_portfolio_value: the return value and the portfolio after
get_total_portfolio_value(pf, cb) ==
    LET total_value == pf.cash + get_holdings_value(pf, cb)
    IN  [ret |-> total_value,
         pf |-> [pf EXCEPT !.peak_portfolio_value =
                              NewPeak(pf.peak_portfolio_value, total_value)]]

\* one holding's term in get_unrealized_pnl
HoldingUnrealizedPnl(entry, cp) ==
    IF ValidPrice(cp)
    THEN RScale(RSub(RInt(cp.price), entry.average_cost_price), entry.quantity)
    ELSE RInt(0)

RECURSIVE SumUnrealizedPnl(_, _)
SumUnrealizedPnl(h, f) ==
    IF h = <<>> THEN RInt(0)
    ELSE RAdd(HoldingUnrealizedPnl(Head(h), f[Head(h).symbol]),
              SumUnrealizedPnl(Tail(h), f))

\* MockPortfolio.get_unrealized_pnl
get_unrealized_pnl(pf, cb) ==
    IF ~cb.set THEN RInt(0) ELSE SumUnrealizedPnl(pf.holdings, cb.f)

\* one entry of get_holdings_with_details
HoldingDetails(entry, cp) ==
    [symbol |-> entry.symbol,
     quantity |-> entry.quantity,
     average_cost_price |-> entry.average_cost_price,
     current_price |-> IF ValidPrice(cp) THEN cp ELSE None,
     market_value |-> IF ValidPrice(cp) THEN entry.quantity * cp.price ELSE 0,
     unrealized_pnl |->
        IF ValidPrice(cp)
        THEN RScale(RSub(RInt(cp.price), entry.average_cost_price), entry.quantity)
        ELSE RInt(0)]

\* MockPortfolio.get_holdings_with_details
get_holdings_with_details(pf, cb) ==
    [i \in 1..Len(pf.holdings) |->
        HoldingDetails(pf.holdings[i],
                       IF cb.set THEN cb.f[pf.holdings[i].symbol] ELSE None)]

----------------------------------------------------------------------------
(* risk_manager *)

NoSymbol == "None"
RiskAlert(alert_type, symbol) == [alert_type |-> alert_type, symbol |-> symbol]

RECURSIVE Concat(_)
Concat(seqs) == IF seqs = <<>> THEN <<>> ELSE Head(seqs) \o Concat(Tail(seqs))

\* "num / den > pct" with pct in percent, den # 0
RatioExceeds(num, den, pct) ==
    IF den > 0 THEN num * 100 > pct * den ELSE num * 100 < pct * den

\* the stop-loss test on one holding: loss_percentage >= limit
StopLossHit(holding, pct) ==
    LET avg == holding.average_cost_price
        cur == holding.current_price
    IN  /\ ~(holding.quantity = 0 \/ avg.n = 0)
        /\ cur.ok /\ cur.price > 0
        /\ cur.price * avg.d - avg.n < 0
        /\ IF avg.n > 0
           THEN (avg.n - cur.price * avg.d) * 100 >= pct * avg.n
           ELSE (avg.n - cur.price * avg.d) * 100 <= pct * avg.n

\* check_stop_loss_per_position
check_stop_loss_per_position(details, pct) ==
    Concat([i \in 1..Len(details) |->
        IF StopLossHit(details[i], pct)
        THEN <<RiskAlert("STOP_LOSS_PER_POSITION", details[i].symbol)>>
        ELSE <<>>])

\* the post-trade test on one holding: position_percentage > limit
PositionTooLargeInclusive(holding, total_value, pct) ==
    holding.market_value > 0 /\ holding.market_value * 100 >= pct * total_value

PositionTooLarge(holding, total_value, pct) ==
    holding.market_value > 0 /\ RatioExceeds(holding.market_value, total_value, pct)

\* "is_already_alerted": a MAX_POSITION_SIZE alert for the traded symbol exists
IsAlreadyAlerted(alerts, symbol) ==
    \E i \in 1..Len(alerts) :
        alerts[i].symbol = symbol /\ alerts[i].alert_type = "MAX_POSITION_SIZE"

\* the trade context of a pre-trade check, or none
NoTradeContext == [set |-> FALSE, symbol |-> "", potential |-> 0]
TradeContext(symbol, potential) ==
    [set |-> TRUE, symbol |-> symbol, potential |-> potential]

\* check_max_position_size
check_max_position_size(details, total_value, pct, ctx) ==
    IF total_value = 0 THEN <<>>
    ELSE LET alerts == Concat([i \in 1..Len(details) |->
                 IF PositionTooLarge(details[i], total_value, pct)
                 THEN <<RiskAlert("MAX_POSITION_SIZE", details[i].symbol)>>
                 ELSE <<>>])
         IN  IF /\ ctx.set /\ ctx.symbol # ""
                /\ ctx.potential > 0
                /\ RatioExceeds(ctx.potential, total_value, pct)
                /\ ~IsAlreadyAlerted(alerts, ctx.symbol)
             THEN Append(alerts, RiskAlert("MAX_POSITION_SIZE_PRE_TRADE", ctx.symbol))
             ELSE alerts

CheckMaxAccountDrawdownInclusive(total_value, peak_value, pct) ==
    IF peak_value <= 0 THEN <<>>
    ELSE IF (peak_value - total_value) * 100 >= pct * peak_value
         THEN <<RiskAlert("MAX_ACCOUNT_DRAWDOWN", NoSymbol)>>
         ELSE <<>>

\* check_max_account_drawdown
check_max_account_drawdown(total_value, peak_value, pct) ==
    IF peak_value <= 0 THEN <<>>
    ELSE IF RatioExceeds(peak_value - total_value, peak_value, pct)
         THEN <<RiskAlert("MAX_ACCOUNT_DRAWDOWN", NoSymbol)>>
         ELSE <<>>

\* evaluate_all_risks
evaluate_all_risks(portfolio_state, risk_params, ctx) ==
    check_stop_loss_per_position(portfolio_state.holdings_details,
                                 risk_params.stop_loss_pct)
    \o check_max_position_size(portfolio_state.holdings_details,
                               portfolio_state.total_value,
                               risk_params.max_pos_pct, ctx)
    \o check_max_account_drawdown(portfolio_state.total_value,
                                  portfolio_state.peak_value,
                                  risk_params.max_dd_pct)

----------------------------------------------------------------------------
(* MockTradingEngine; es is the engine with its portfolio, cfg its constructor
   arguments, market the table its price callback reads *)

PerformRiskEvaluationAlways(es, cfg, market, ctx) ==
    LET cb == Callback(market)
        tv == get_total_portfolio_value(es.portfolio, cb)
    IN  [es EXCEPT !.portfolio = tv.pf,
                   !.active_risk_alerts =
                       evaluate_all_risks(
                           [holdings_details |->
                               get_holdings_with_details(es.portfolio, cb),
                            total_value |-> tv.ret,
                            peak_value |-> tv.pf.peak_portfolio_value],
                           cfg.risk_parameters, ctx)]

PerformRiskEvaluationAccumulating(es, cfg, market, ctx) ==
    IF ~cfg.has_callback THEN es
    ELSE LET cb == Callback(market)
             tv == get_total_portfolio_value(es.portfolio, cb)
         IN  [es EXCEPT !.portfolio = tv.pf,
                        !.active_risk_alerts = es.active_risk_alerts \o
                            evaluate_all_risks(
                                [holdings_details |->
                                    get_holdings_with_details(es.portfolio, cb),
                                 total_value |-> tv.ret,
                                 peak_value |-> tv.pf.peak_portfolio_value],
                                cfg.risk_parameters, ctx)]

\* MockTradingEngine._perform_risk_evaluation
perform_risk_evaluation(es, cfg, market, ctx) ==
    IF ~cfg.has_callback THEN es
    ELSE LET cb == Callback(market)
             details == get_holdings_with_details(es.portfolio, cb)
             tv == get_total_portfolio_value(es.portfolio, cb)
             portfolio_state ==
                [holdings_details |-> details,
                 total_value |-> tv.ret,
                 peak_value |-> tv.pf.peak_portfolio_value]
         IN  [es EXCEPT !.portfolio = tv.pf,
                        !.active_risk_alerts =
                            evaluate_all_risks(portfolio_state, cfg.risk_parameters, ctx)]

\* "if not all([signal_type, symbol, price is not None])"
IncompleteEvent(signal_type, symbol, price) ==
    signal_type = "" \/ symbol = "" \/ ~price.ok

PreTradeAlertForWrongType(alerts, symbol) ==
    \E i \in 1..Len(alerts) :
        alerts[i].alert_type = "MAX_POSITION_SIZE" /\ alerts[i].symbol = symbol

\* the veto test after the pre-trade evaluation
PreTradeAlertFor(alerts, symbol) ==
    \E i \in 1..Len(alerts) :
        alerts[i].alert_type = "MAX_POSITION_SIZE_PRE_TRADE" /\ alerts[i].symbol = symbol

\* the trade context built for a BUY
BuyTradeContext(pf, symbol, quantity_to_trade, price) ==
    TradeContext(symbol, (QuantityHeld(pf.holdings, symbol) + quantity_to_trade) * price)

TradeRecordStampedLate(trade_id, event, signal_type, quantity) ==
    [trade_id |-> trade_id,
     symbol |-> event.symbol,
     timestamp |-> event.timestamp + 1,
     type |-> signal_type,
     quantity |-> quantity,
     price |-> event.price.price,
     total_value |-> quantity * event.price.price]

\* the record appended to trade_log; trade_id stands for "TRADE_%05d" of the counter
TradeRecord(trade_id, event, signal_type, quantity) ==
    [trade_id |-> trade_id,
     symbol |-> event.symbol,
     timestamp |-> event.timestamp,
     type |-> signal_type,
     quantity |-> quantity,
     price |-> event.price.price,
     total_value |-> quantity * event.price.price]

Handled(es, outcome) == [es |-> es, outcome |-> outcome]

GenerateTradeIdStuck(counter) == counter

\* MockTradingEngine._generate_trade_id: the counter after "+= 1", which the
\* id "TRADE_%05d" is printed from
generate_trade_id(counter) == counter + 1

\* handle_signal_event from the trade-id generation on
ExecuteTrade(es, cfg, market, event, signal_type) ==
    LET trade_id == generate_trade_id(es.trade_id_counter)
        r == record_transaction(es.portfolio, event.symbol, signal_type,
                                cfg.fixed_trade_quantity, event.price.price)
        counted == [es EXCEPT !.trade_id_counter = trade_id]
    IN  IF r.ret
        THEN Handled(
                perform_risk_evaluation(
                    [counted EXCEPT
                        !.portfolio = r.pf,
                        !.trade_log = Append(es.trade_log,
                            TradeRecord(trade_id, event, signal_type,
                                        cfg.fixed_trade_quantity))],
                    cfg, market, NoTradeContext),
                "traded")
        ELSE Handled(counted, "refused")

InitialRiskEvaluationSkipped(es, cfg, market) == es

\* the general risk check at the start of handling a complete signal
InitialRiskEvaluation(es, cfg, market) ==
    perform_risk_evaluation(es, cfg, market, NoTradeContext)

\* MockTradingEngine.handle_signal_event: the engine after, and the path taken
handle_signal_event(es, cfg, market, event) ==
    LET signal_type == Upper(event.signal)
    IN  IF IncompleteEvent(signal_type, event.symbol, event.price)
        THEN Handled(es, "incomplete")
        ELSE LET es1 == InitialRiskEvaluation(es, cfg, market)
             IN  IF signal_type = "HOLD" THEN Handled(es1, "hold")
                 ELSE IF signal_type \notin {"BUY", "SELL"} THEN Handled(es1, "unknown")
                 ELSE IF signal_type = "BUY" /\ cfg.has_callback
                 THEN LET es2 == perform_risk_evaluation(es1, cfg, market,
                                    BuyTradeContext(es1.portfolio, event.symbol,
                                                    cfg.fixed_trade_quantity,
                                                    event.price.price))
                      IN  IF PreTradeAlertFor(es2.active_risk_alerts, event.symbol)
                          THEN Handled(es2, "vetoed")
                          ELSE ExecuteTrade(es2, cfg, market, event, signal_type)
                 ELSE ExecuteTrade(es1, cfg, market, event, signal_type)

----------------------------------------------------------------------------
(* The record of the last call *)

NoEvent == [signal |-> "", symbol |-> "", price |-> None, timestamp |-> 0]

NoArgs == [symbol |-> "", transaction_type |-> "", quantity |-> 0, price |-> 0,
           cb |-> NoCallback, event |-> NoEvent, pct |-> 0]

\* before: the portfolio before the call; engine_before: the engine's log,
\* counter and alerts before the call
CallRecord(op, args, before, engine_before, ret) ==
    [op |-> op, args |-> args, before |-> before, engine_before |-> engine_before,
     ret |-> ret]

EngineState(pf, log, counter, alerts) ==
    [portfolio |-> pf, trade_log |-> log, trade_id_counter |-> counter,
     active_risk_alerts |-> alerts]

CurrentEngineState ==
    EngineState(portfolio, trade_log, trade_id_counter, active_risk_alerts)

Returned(ok, value) == [ok |-> ok, value |-> value, outcome |-> "", alerts |-> <<>>]
ReturnedAlerts(alerts) == [Returned(TRUE, RInt(0)) EXCEPT !.alerts = alerts]
NoRet == Returned(TRUE, RInt(0))
Idle(es) == CallRecord("idle", NoArgs, es.portfolio, es, NoRet)
IsIdle == last.op = "idle"

----------------------------------------------------------------------------
(* MockRealtimeDataProvider: start, stop, subscribe, unsubscribe and the
   tick-loop threads.  One caller calls start() and stop() one after the
   other; every thread created by start() runs _tick_loop.  A thread is at the
   loop test ("while"), at a symbol of the configuration ("for"), inside
   _notify_subscribers for a symbol's tick ("callback"), back from it
   ("notified"), in time.sleep(0.1) ("sleep") or has left _tick_loop
   ("exited").  Whether a symbol's interval has elapsed depends on the clock
   and is a free choice.  subscribe() and unsubscribe() can be called at any
   moment, by another thread or from inside a subscriber callback.  While a
   thread delivers a tick, k is the position of the list iterator of
   "for callback in self._subscribers[symbol]"; snap (the subscriber list when
   the delivery began), got (the callbacks invoked so far), stable (the
   callbacks of snap not unsubscribed since) and raised (the callbacks that
   raised) record the delivery. *)

MaxLoops == 2

SymbolsConfig == <<"X", "Y">>
LoopIds == 1..MaxLoops

\* the subscribe() and unsubscribe() calls made: symbol (Z is not configured)
\* and callback
SubscribeCalls == {<<"X", "a">>, <<"X", "b">>, <<"Z", "a">>}
UnsubscribeCalls == {<<"X", "a">>, <<"X", "b">>, <<"Y", "a">>}
\* the callbacks that can raise an exception
Raisers == {"a"}

Range(seq) == {seq[j] : j \in 1..Len(seq)}

At(pc, i) ==
    [pc |-> pc, i |-> i, k |-> 0, snap |-> <<>>, got |-> <<>>, stable |-> {},
     raised |-> {}]
NotStarted == At("unborn", 0)

\* the last start() or stop() call: what it was, _running, _thread and the
\* number of threads created when it was made, whether join() timed out
ProviderCall(op, p, timed_out) ==
    [op |-> op, was_running |-> p.running, thread_before |-> p.thread,
     nloops_before |-> p.nloops, timed_out |-> timed_out]

\* MockRealtimeDataProvider.__init__
NewProvider ==
    LET p == [running |-> FALSE, thread |-> 0, nloops |-> 0]
    IN  [running |-> FALSE,
         thread |-> 0,
         nloops |-> 0,
         loops |-> [t \in LoopIds |-> NotStarted],
         subscribers |-> [j \in Range(SymbolsConfig) |-> <<>>],
         caller |-> "idle",
         call |-> ProviderCall("none", p, FALSE)]

\* Thread.is_alive()
is_alive(p, t) == t # 0 /\ p.loops[t].pc \notin {"unborn", "exited"}

\* MockRealtimeDataProvider.start
start(p) ==
    IF ~p.running
    THEN [p EXCEPT !.running = TRUE,
                   !.nloops = p.nloops + 1,
                   !.thread = p.nloops + 1,
                   !.loops[p.nloops + 1] = At("while", 0)]
    ELSE p

\* the slow step of a loop thread that can outlast join(timeout=2): a
\* subscriber callback; the other steps of an iteration end within the 0.1 s sleep
JoinCanTimeOut(p) == p.loops[p.thread].pc = "callback"

\* "for config in self._symbols_config": the position after symbol i
NextSymbol(i) == IF i < Len(SymbolsConfig) THEN At("for", i + 1) ELSE At("sleep", 0)

Start ==
    /\ feed.caller = "idle"
    /\ feed.running \/ feed.nloops < MaxLoops
    /\ feed' = [start(feed) EXCEPT !.call = ProviderCall("start", feed, FALSE)]
    /\ UNCHANGED <<portfolio, market_prices, engine_config, trade_log,
                   trade_id_counter, active_risk_alerts, ntx, last, klines,
                   strategy, twin, signals, rsi, simulation_components, event_loop, snapshots, response>>

\* MockRealtimeDataProvider.stop up to join(), or to its return when there is
\* nothing to join
Stop ==
    /\ feed.caller = "idle"
    /\ feed' = [feed EXCEPT
                  !.running = FALSE,
                  !.caller = IF feed.running /\ is_alive(feed, feed.thread)
                             THEN "joining" ELSE "idle",
                  !.call = ProviderCall("stop", feed, FALSE)]
    /\ UNCHANGED <<portfolio, market_prices, engine_config, trade_log,
                   trade_id_counter, active_risk_alerts, ntx, last, klines,
                   strategy, twin, signals, rsi, simulation_components, event_loop, snapshots, response>>

\* join() returns because the thread has ended, and stop() returns
JoinReturns ==
    /\ feed.caller = "joining"
    /\ ~is_alive(feed, feed.thread)
    /\ feed' = [feed EXCEPT !.caller = "idle"]
    /\ UNCHANGED <<portfolio, market_prices, engine_config, trade_log,
                   trade_id_counter, active_risk_alerts, ntx, last, klines,
                   strategy, twin, signals, rsi, simulation_components, event_loop, snapshots, response>>

\* join(timeout=2) returns because the two seconds are over, and stop() returns
JoinTimesOut ==
    /\ feed.caller = "joining"
    /\ is_alive(feed, feed.thread)
    /\ JoinCanTimeOut(feed)
    /\ feed' = [feed EXCEPT !.caller = "idle", !.call.timed_out = TRUE]
    /\ UNCHANGED <<portfolio, market_prices, engine_config, trade_log,
                   trade_id_counter, active_risk_alerts, ntx, last, klines,
                   strategy, twin, signals, rsi, simulation_components, event_loop, snapshots, response>>

\* _tick_loop: "while self._running"
TestRunning(t) ==
    /\ feed.loops[t].pc = "while"
    /\ feed' = [feed EXCEPT !.loops[t] =
                  IF feed.running THEN At("for", 1) ELSE At("exited", 0)]
    /\ UNCHANGED <<portfolio, market_prices, engine_config, trade_log,
                   trade_id_counter, active_risk_alerts, ntx, last, klines,
                   strategy, twin, signals, rsi, simulation_components, event_loop, snapshots, response>>

\* the list object behind self._subscribers[symbol], empty when there is none
SubscribersOf(p, symbol) ==
    IF symbol \in DOMAIN p.subscribers THEN p.subscribers[symbol] ELSE <<>>

\* MockRealtimeDataProvider.subscribe
subscribe(p, symbol, callback_function) ==
    LET table == IF symbol \notin DOMAIN p.subscribers
                 THEN (symbol :> <<>>) @@ p.subscribers
                 ELSE p.subscribers
    IN  IF callback_function \notin Range(table[symbol])
        THEN [p EXCEPT !.subscribers =
                  [table EXCEPT ![symbol] = Append(@, callback_function)]]
        ELSE [p EXCEPT !.subscribers = table]

\* list.remove(x): the list without its first x
RECURSIVE Remove(_, _)
Remove(seq, x) ==
    IF seq = <<>> THEN <<>>
    ELSE IF Head(seq) = x THEN Tail(seq)
    ELSE <<Head(seq)>> \o Remove(Tail(seq), x)

\* MockRealtimeDataProvider.unsubscribe
unsubscribe(p, symbol, callback_function) ==
    IF symbol \in DOMAIN p.subscribers
       /\ callback_function \in Range(p.subscribers[symbol])
    THEN [p EXCEPT !.subscribers[symbol] = Remove(@, callback_function)]
    ELSE p

\* the record of the deliveries in progress for symbol, after callback_function
\* was unsubscribed from it
Forget(loops, symbol, callback_function) ==
    [t \in LoopIds |->
        IF loops[t].pc = "callback" /\ SymbolsConfig[loops[t].i] = symbol
        THEN [loops[t] EXCEPT !.stable = @ \ {callback_function}]
        ELSE loops[t]]

\* _tick_loop at "self._notify_subscribers(symbol, data_tick)"
Dispatching(i, subs) ==
    [At("callback", i) EXCEPT !.snap = subs, !.stable = Range(subs)]

CallbackOutcomeUncaught(at, callback_function, raises) ==
    IF raises
    THEN [at EXCEPT !.pc = "exited", !.got = Append(@, callback_function),
                    !.raised = @ \cup {callback_function}]
    ELSE [at EXCEPT !.k = @ + 1, !.got = Append(@, callback_function)]

\* _notify_subscribers: one pass of "try: callback(data_tick) except Exception"
CallbackOutcome(at, callback_function, raises) ==
    [at EXCEPT !.k = @ + 1,
               !.got = Append(@, callback_function),
               !.raised = IF raises THEN @ \cup {callback_function} ELSE @]

Subscribe ==
    /\ \E c \in SubscribeCalls : feed' = subscribe(feed, c[1], c[2])
    /\ UNCHANGED <<portfolio, market_prices, engine_config, trade_log,
                   trade_id_counter, active_risk_alerts, ntx, last, klines,
                   strategy, twin, signals, rsi, simulation_components, event_loop, snapshots, response>>

Unsubscribe ==
    /\ \E c \in UnsubscribeCalls :
          feed' = [unsubscribe(feed, c[1], c[2]) EXCEPT
                      !.loops = Forget(feed.loops, c[1], c[2])]
    /\ UNCHANGED <<portfolio, market_prices, engine_config, trade_log,
                   trade_id_counter, active_risk_alerts, ntx, last, klines,
                   strategy, twin, signals, rsi, simulation_components, event_loop, snapshots, response>>

\* _tick_loop: one symbol of the configuration; when its interval has elapsed a
\* tick is generated and, if the symbol has subscribers, they are notified
TickSymbol(t) ==
    /\ feed.loops[t].pc = "for"
    /\ \E due \in BOOLEAN :
          LET symbol == SymbolsConfig[feed.loops[t].i]
          IN  feed' = [feed EXCEPT !.loops[t] =
                         IF due /\ SubscribersOf(feed, symbol) # <<>>
                         THEN Dispatching(feed.loops[t].i, SubscribersOf(feed, symbol))
                         ELSE NextSymbol(feed.loops[t].i)]
    /\ UNCHANGED <<portfolio, market_prices, engine_config, trade_log,
                   trade_id_counter, active_risk_alerts, ntx, last, klines,
                   strategy, twin, signals, rsi, simulation_components, event_loop, snapshots, response>>

\* _notify_subscribers: the list iterator yields the next callback, which is
\* called with the tick and returns or raises
InvokeCallback(t) ==
    /\ feed.loops[t].pc = "callback"
    /\ LET subs == SubscribersOf(feed, SymbolsConfig[feed.loops[t].i])
       IN  /\ feed.loops[t].k < Len(subs)
           /\ \E raises \in {FALSE, subs[feed.loops[t].k + 1] \in Raisers} :
                 feed' = [feed EXCEPT !.loops[t] =
                            CallbackOutcome(feed.loops[t],
                                            subs[feed.loops[t].k + 1], raises)]
    /\ UNCHANGED <<portfolio, market_prices, engine_config, trade_log,
                   trade_id_counter, active_risk_alerts, ntx, last, klines,
                   strategy, twin, signals, rsi, simulation_components, event_loop, snapshots, response>>

\* _notify_subscribers returns: the list iterator is exhausted
CallbackReturns(t) ==
    /\ feed.loops[t].pc = "callback"
    /\ feed.loops[t].k >= Len(SubscribersOf(feed, SymbolsConfig[feed.loops[t].i]))
    /\ feed' = [feed EXCEPT !.loops[t].pc = "notified"]
    /\ UNCHANGED <<portfolio, market_prices, engine_config, trade_log,
                   trade_id_counter, active_risk_alerts, ntx, last, klines,
                   strategy, twin, signals, rsi, simulation_components, event_loop, snapshots, response>>

\* _tick_loop: "self._last_update_times[symbol] = current_time", on to the
\* next symbol
FinishSymbol(t) ==
    /\ feed.loops[t].pc = "notified"
    /\ feed' = [feed EXCEPT !.loops[t] = NextSymbol(feed.loops[t].i)]
    /\ UNCHANGED <<portfolio, market_prices, engine_config, trade_log,
                   trade_id_counter, active_risk_alerts, ntx, last, klines,
                   strategy, twin, signals, rsi, simulation_components, event_loop, snapshots, response>>

\* time.sleep(0.1) is over
Wake(t) ==
    /\ feed.loops[t].pc = "sleep"
    /\ feed' = [feed EXCEPT !.loops[t] = At("while", 0)]
    /\ UNCHANGED <<portfolio, market_prices, engine_config, trade_log,
                   trade_id_counter, active_risk_alerts, ntx, last, klines,
                   strategy, twin, signals, rsi, simulation_components, event_loop, snapshots, response>>

----------------------------------------------------------------------------
(* RealtimeKlinesAggregator.  An interval string is the sequence of its
   characters; timestamps, prices and volumes are integers, a volume can be
   None.  _current_klines maps the keys (symbol, interval_str) that have a
   bar to their bar.  folded records, for each key, the ticks that went into
   its current bar; call records the last call: its key, the exception that
   left it, and the start time of the bar the key had before it. *)

MaxTicks == 3

TickPrices == {1, 2, 3}
TickTimestamps == 0..3
TickVolumes == {None, Some(2)}
KlineSymbols == {"X"}
IntervalStrings ==
    {<<"3", "S">>, <<"-", "3", "s">>, <<"0", "s">>, <<>>, <<"s">>,
     <<"x", "s">>, <<"3", "x">>}

Digits == <<"0", "1", "2", "3", "4", "5", "6", "7", "8", "9">>
IsDigit(c) == \E d \in 1..Len(Digits) : Digits[d] = c
DigitValue(c) == (CHOOSE d \in 1..Len(Digits) : Digits[d] = c) - 1

\* the value of a string of decimal digits
RECURSIVE DigitsValue(_)
DigitsValue(chars) ==
    IF chars = <<>> THEN 0
    ELSE 10 * DigitsValue(SubSeq(chars, 1, Len(chars) - 1))
         + DigitValue(chars[Len(chars)])

\* int(text) for a text of sign and digit characters: an optional sign and at
\* least one digit, anything else raises ValueError
ParseInt(chars) ==
    LET signed == chars # <<>> /\ chars[1] \in {"-", "+"}
        digits == IF signed THEN Tail(chars) ELSE chars
    IN  IF digits # <<>> /\ \A d \in 1..Len(digits) : IsDigit(digits[d])
        THEN [ok |-> TRUE,
              value |-> IF signed /\ chars[1] = "-" THEN 0 - DigitsValue(digits)
                        ELSE DigitsValue(digits)]
        ELSE [ok |-> FALSE, value |-> 0]

\* str.lower() of one character
Lower(c) ==
    CASE c = "S" -> "s" [] c = "M" -> "m" [] c = "H" -> "h" [] c = "D" -> "d"
      [] c = "X" -> "x" [] OTHER -> c

multipliers == [s |-> 1, m |-> 60, h |-> 3600, d |-> 86400]

\* what a call ends with: a value, or the exception it raises
Raises(exception) == [raised |-> exception, value |-> 0]
Gives(value) == [raised |-> "none", value |-> value]

\* _get_interval_seconds
get_interval_seconds(interval_str) ==
    IF interval_str = <<>> THEN Raises("IndexError")
    ELSE LET unit == Lower(interval_str[Len(interval_str)])
             value == ParseInt(SubSeq(interval_str, 1, Len(interval_str) - 1))
         IN  IF value.ok /\ unit \in DOMAIN multipliers
             THEN Gives(value.value * multipliers[unit])
             ELSE Raises("ValueError")

\* math.floor(a / b) for b # 0
FloorDiv(a, b) == IF b > 0 THEN a \div b ELSE (0 - a) \div (0 - b)

\* _align_timestamp_to_interval
align_timestamp_to_interval(timestamp, interval_seconds) ==
    IF interval_seconds = 0 THEN Raises("ZeroDivisionError")
    ELSE Gives(FloorDiv(timestamp, interval_seconds) * interval_seconds)

\* self._current_klines.get(key)
CurrentBar(agg, key) ==
    IF key \in DOMAIN agg.current_klines
    THEN [ok |-> TRUE, bar |-> agg.current_klines[key]]
    ELSE [ok |-> FALSE, bar |-> <<>>]

StartsNewBarOnlyWhenNone(current_bar, kline_start_time) == ~current_bar.ok

\* update_with_tick: "current_bar is None or current_bar.time != kline_start_time"
StartsNewBar(current_bar, kline_start_time) ==
    \/ ~current_bar.ok
    \/ current_bar.bar.time # kline_start_time

\* update_with_tick: the new K-line bar
NewBar(kline_start_time, price, tick_volume) ==
    [time |-> kline_start_time, open |-> price, high |-> price, low |-> price,
     close |-> price, volume |-> tick_volume]

Max(a, b) == IF a >= b THEN a ELSE b
Min(a, b) == IF a <= b THEN a ELSE b

UpdateBarVolumeReplaced(bar, price, tick_volume) ==
    [bar EXCEPT !.high = Max(bar.high, price), !.low = Min(bar.low, price),
                !.close = price, !.volume = tick_volume]

\* update_with_tick: the existing K-line bar updated
UpdateBar(bar, price, tick_volume) ==
    [bar EXCEPT !.high = Max(bar.high, price), !.low = Min(bar.low, price),
                !.close = price, !.volume = bar.volume + tick_volume]

Tick(price, timestamp, volume) ==
    [price |-> price, timestamp |-> timestamp, volume |-> volume]

\* table with key set to value, whether or not key was there
Put(table, key, value) ==
    [k \in DOMAIN table \cup {key} |-> IF k = key THEN value ELSE table[k]]
\* table without key
Drop(table, key) == [k \in DOMAIN table \ {key} |-> table[k]]

\* update_with_tick: the aggregator afterwards and the exception that left
\* the call, if any
update_with_tick(agg, symbol, price, timestamp, volume, interval_str) ==
    LET seconds == get_interval_seconds(interval_str)
        kline_start_time ==
            align_timestamp_to_interval(timestamp, seconds.value)
        key == <<symbol, interval_str>>
        current_bar == CurrentBar(agg, key)
        tick_volume == IF volume.ok THEN volume.price ELSE 0
        tick == Tick(price, timestamp, volume)
    IN  IF seconds.raised = "ValueError" THEN [agg |-> agg, raised |-> "none"]
        ELSE IF seconds.raised # "none" THEN [agg |-> agg, raised |-> seconds.raised]
        ELSE IF kline_start_time.raised # "none" THEN [agg |-> agg, raised |-> kline_start_time.raised]
        ELSE IF StartsNewBar(current_bar, kline_start_time.value)
        THEN [agg |-> [agg EXCEPT
                  !.current_klines = Put(@, key, NewBar(kline_start_time.value, price, tick_volume)),
                  !.folded = Put(@, key, <<tick>>)],
              raised |-> "none"]
        ELSE [agg |-> [agg EXCEPT
                  !.current_klines[key] = UpdateBar(@, price, tick_volume),
                  !.folded[key] = Append(@, tick)],
              raised |-> "none"]

\* reset_symbol_interval
reset_symbol_interval(agg, symbol, interval_str) ==
    [agg EXCEPT !.current_klines = Drop(@, <<symbol, interval_str>>),
                !.folded = Drop(@, <<symbol, interval_str>>)]

NoTable == [k \in {} |-> <<>>]

\* reset_all
reset_all(agg) == [agg EXCEPT !.current_klines = NoTable, !.folded = NoTable]

KlinesCall(op, agg, symbol, interval_str, raised) ==
    LET current_bar == CurrentBar(agg, <<symbol, interval_str>>)
    IN  [op |-> op, symbol |-> symbol, interval_str |-> interval_str,
         raised |-> raised,
         time_before |-> IF current_bar.ok THEN Some(current_bar.bar.time)
                         ELSE None]

\* RealtimeKlinesAggregator.__init__
NewAggregator ==
    [current_klines |-> NoTable, folded |-> NoTable, nticks |-> 0,
     call |-> KlinesCall("none", [current_klines |-> NoTable], "", <<>>, "none")]

\* the ticks a call with interval_str is made with: a call that does not get
\* as far as looking at its tick is made with one tick only
TicksFor(interval_str) ==
    IF get_interval_seconds(interval_str).raised = "none"
    THEN {Tick(price, timestamp, volume) :
             price \in TickPrices, timestamp \in TickTimestamps,
             volume \in TickVolumes}
    ELSE {Tick(1, 0, None)}

\* a call of update_with_tick; nticks counts the ticks that went into a bar
UpdateWithTick ==
    /\ klines.nticks < MaxTicks
    /\ \E symbol \in KlineSymbols, interval_str \in IntervalStrings :
       \E tick \in TicksFor(interval_str) :
          LET r == update_with_tick(klines, symbol, tick.price, tick.timestamp,
                                    tick.volume, interval_str)
          IN  klines' = [r.agg EXCEPT
                  !.nticks = IF r.agg.folded = klines.folded THEN @ ELSE @ + 1,
                  !.call = KlinesCall("update_with_tick", klines, symbol,
                                      interval_str, r.raised)]
    /\ UNCHANGED <<portfolio, market_prices, engine_config, trade_log,
                   trade_id_counter, active_risk_alerts, ntx, last, feed,
                   strategy, twin, signals, rsi, simulation_components, event_loop, snapshots, response>>

ResetSymbolInterval ==
    /\ \E symbol \in KlineSymbols, interval_str \in IntervalStrings :
          klines' = [reset_symbol_interval(klines, symbol, interval_str) EXCEPT
                  !.call = KlinesCall("reset_symbol_interval", klines, symbol,
                                      interval_str, "none")]
    /\ UNCHANGED <<portfolio, market_prices, engine_config, trade_log,
                   trade_id_counter, active_risk_alerts, ntx, last, feed,
                   strategy, twin, signals, rsi, simulation_components, event_loop, snapshots, response>>

ResetAll ==
    /\ klines' = [reset_all(klines) EXCEPT
                  !.call = KlinesCall("reset_all", klines, "", <<>>, "none")]
    /\ UNCHANGED <<portfolio, market_prices, engine_config, trade_log,
                   trade_id_counter, active_risk_alerts, ntx, last, feed,
                   strategy, twin, signals, rsi, simulation_components, event_loop, snapshots, response>>

----------------------------------------------------------------------------
(* RealtimeSimpleMAStrategy for the symbol X.  prices is the deque, oldest
   price first; a moving average is None or an exact fraction.  tick records
   the last on_new_tick call: its tick, the deque and current_signal before
   it, and the events it sent to signal_callback.  A timestamp is its value
   and whether time.ctime can format it (it raises OverflowError for a value
   outside the platform's time_t, such as 1e20); of the verbose prints only
   that call is kept. *)

StrategySymbol == "X"
TickSymbols == {"X", "Y"}
StrategyPrices == {None, Some(1), Some(2), Some(3)}
Windows == {<<1, 2>>, <<1, 3>>, <<2, 3>>}

Stamp(t, formattable) == [t |-> t, formattable |-> formattable]
ClockTimestamps == {Stamp(7, TRUE)}
AnyTimestamps == {Stamp(7, TRUE), Stamp(9, FALSE)}

NoMA == [ok |-> FALSE, ma |-> RInt(0)]
MA(total, count) == [ok |-> TRUE, ma |-> Rat(total, count)]

\* a < b for exact fractions with positive denominators
RLess(a, b) == a.n * b.d < b.n * a.d
RLessEq(a, b) == a.n * b.d <= b.n * a.d

RECURSIVE SeqSum(_)
SeqSum(seq) == IF seq = <<>> THEN 0 ELSE Head(seq) + SeqSum(Tail(seq))

\* list(self.prices)[-n:]
LastN(seq, n) == SubSeq(seq, Len(seq) - n + 1, Len(seq))

AppendPriceUnbounded(prices, maxlen, new_price) == Append(prices, new_price)

\* deque(maxlen=long_window).append
AppendPrice(prices, maxlen, new_price) ==
    IF Len(prices) < maxlen THEN Append(prices, new_price)
    ELSE Append(Tail(prices), new_price)

CalculateSmaOfOldest(st, window_size) ==
    IF Len(st.prices) >= window_size
    THEN MA(SeqSum(SubSeq(st.prices, 1, window_size)), window_size)
    ELSE NoMA

\* _calculate_sma
calculate_sma(st, window_size) ==
    IF Len(st.prices) >= window_size
    THEN IF window_size = st.short_window
         THEN MA(SeqSum(LastN(st.prices, st.short_window)), st.short_window)
         ELSE IF window_size = st.long_window
         THEN MA(SeqSum(st.prices), Len(st.prices))
         ELSE NoMA
    ELSE NoMA

StrategyTick(op, st, symbol, price) ==
    [op |-> op, symbol |-> symbol, price |-> price,
     prices_before |-> st.prices, signal_before |-> st.current_signal,
     sent |-> <<>>, raised |-> FALSE]

\* RealtimeSimpleMAStrategy.__init__
NewStrategy(short_window, long_window, has_callback) ==
    LET st == [prices |-> <<>>, current_signal |-> "WARMING_UP"]
    IN  [short_window |-> short_window, long_window |-> long_window,
         has_callback |-> has_callback, verbose |-> FALSE,
         prices |-> <<>>,
         short_ma |-> NoMA, long_ma |-> NoMA,
         prev_short_ma |-> NoMA, prev_long_ma |-> NoMA,
         current_signal |-> "WARMING_UP",
         tick |-> StrategyTick("none", st, StrategySymbol, None)]

CrossesAboveStrict(prev_short_ma, prev_long_ma, short_ma, long_ma) ==
    RLess(prev_short_ma, prev_long_ma) /\ RLess(long_ma, short_ma)

\* on_new_tick: "self.prev_short_ma <= self.prev_long_ma and self.short_ma > self.long_ma"
CrossesAbove(prev_short_ma, prev_long_ma, short_ma, long_ma) ==
    RLessEq(prev_short_ma, prev_long_ma) /\ RLess(long_ma, short_ma)

\* on_new_tick: "self.prev_short_ma >= self.prev_long_ma and self.short_ma < self.long_ma"
CrossesBelow(prev_short_ma, prev_long_ma, short_ma, long_ma) ==
    RLessEq(prev_long_ma, prev_short_ma) /\ RLess(short_ma, long_ma)

\* on_new_tick, signal generation: the new current_signal and
\* new_signal_generated_this_tick
GenerateSignal(st) ==
    IF st.prev_short_ma.ok /\ st.prev_long_ma.ok
    THEN IF CrossesAbove(st.prev_short_ma.ma, st.prev_long_ma.ma,
                         st.short_ma.ma, st.long_ma.ma)
         THEN [signal |-> "BUY", generated |-> TRUE]
         ELSE IF CrossesBelow(st.prev_short_ma.ma, st.prev_long_ma.ma,
                              st.short_ma.ma, st.long_ma.ma)
         THEN [signal |-> "SELL", generated |-> TRUE]
         ELSE IF st.current_signal \in {"WARMING_UP", "ERROR_MA_CALC"}
         THEN [signal |-> "HOLD", generated |-> TRUE]
         ELSE [signal |-> st.current_signal, generated |-> FALSE]
    ELSE IF st.current_signal = "WARMING_UP"
    THEN [signal |-> "HOLD", generated |-> TRUE]
    ELSE [signal |-> st.current_signal, generated |-> FALSE]

SignalEventForCallback(signal, price, timestamp) ==
    [symbol |-> StrategySymbol, timestamp |-> timestamp, signal |-> signal,
     price |-> price]

\* on_new_tick from "Signal generation logic" on: the signal and the event
\* sent to signal_callback, whose exceptions are caught
SignalAndNotify(st, new_price, current_timestamp) ==
    LET g == GenerateSignal(st)
        previous_signal_state == st.current_signal
    IN  [st EXCEPT
           !.current_signal = g.signal,
           !.tick.sent =
               IF (g.generated \/ (st.verbose /\ previous_signal_state # g.signal))
                  /\ st.has_callback
               THEN <<SignalEventForCallback(g.signal, new_price, current_timestamp)>>
               ELSE <<>>]

\* on_new_tick from "Store current MAs as previous" on
UpdateAverages(st) ==
    LET short_ma == calculate_sma(st, st.short_window)
        long_ma == IF Len(st.prices) = st.long_window
                   THEN MA(SeqSum(st.prices), st.long_window)
                   ELSE IF Len(st.prices) >= st.long_window
                   THEN MA(SeqSum(st.prices), Len(st.prices))
                   ELSE NoMA
    IN  [st EXCEPT !.prev_short_ma = st.short_ma, !.prev_long_ma = st.long_ma,
                   !.short_ma = short_ma, !.long_ma = long_ma]

\* on_new_tick: "if self.verbose: print(f"[{time.ctime(current_timestamp)}] ..."
PrintRaises(st, current_timestamp) == st.verbose /\ ~current_timestamp.formattable

\* RealtimeSimpleMAStrategy.on_new_tick
on_new_tick(st, symbol, price, current_timestamp) ==
    LET called == [st EXCEPT !.tick = StrategyTick("on_new_tick", st, symbol, price)]
        appended == [called EXCEPT
                        !.prices = AppendPrice(@, st.long_window, price.price)]
        averaged == UpdateAverages(appended)
    IN  IF symbol # StrategySymbol THEN called
        ELSE IF PrintRaises(st, current_timestamp)
        THEN [called EXCEPT !.tick.raised = TRUE]
        ELSE IF ~price.ok THEN called
        ELSE IF Len(appended.prices) < st.long_window
        THEN [appended EXCEPT !.current_signal = "WARMING_UP"]
        ELSE IF ~averaged.short_ma.ok \/ ~averaged.long_ma.ok
        THEN [averaged EXCEPT !.current_signal = "ERROR_MA_CALC"]
        ELSE SignalAndNotify(averaged, price.price, current_timestamp)

NoTwin == NewStrategy(1, 2, FALSE)

\* a tick of the feed, stamped with time.time()
OnNewTick ==
    /\ \E symbol \in TickSymbols, price \in StrategyPrices,
          timestamp \in ClockTimestamps :
          strategy' = on_new_tick(strategy, symbol, price, timestamp)
    /\ UNCHANGED <<portfolio, market_prices, engine_config, trade_log,
                   trade_id_counter, active_risk_alerts, ntx, last, feed,
                   klines, twin, signals, rsi, simulation_components, event_loop, snapshots, response>>

----------------------------------------------------------------------------
(* RealtimeRSIStrategy for the symbol X.  price_history is the deque, oldest
   price first.  An RSI value is None or a number.  _calculate_rsi_values,
   which _update_rsi imports from strategies/rsi_strategy.py, is not among
   the sources: what it returns for the history (its last element, NaN read
   as None) is an input of the tick, any RSI from 0 to 100 or none.  tick
   records the last on_new_tick call: the portfolio and trade log before it
   and the event it sent to signal_callback. *)

NoRSI == [ok |-> FALSE, value |-> 0]
RSI(v) == [ok |-> TRUE, value |-> v]

RSIValues == {NoRSI, RSI(20), RSI(30), RSI(50), RSI(70), RSI(80)}
RSIPeriods == {1, 2}
RSIThresholds == {<<30, 70>>, <<70, 30>>}
RSIPrices == {4}

RSITick(op, symbol, price, pf, log) ==
    [op |-> op, symbol |-> symbol, price |-> price, portfolio_before |-> pf,
     trade_log_before |-> log, sent |-> <<>>]

\* RealtimeRSIStrategy.__init__
NewRSIStrategy(period, oversold_threshold, overbought_threshold) ==
    [period |-> period,
     oversold_threshold |-> oversold_threshold,
     overbought_threshold |-> overbought_threshold,
     price_history |-> <<>>,
     current_rsi |-> NoRSI,
     previous_rsi |-> NoRSI,
     ticks_received |-> 0,
     min_ticks_for_signal |-> period + 1,
     tick |-> RSITick("none", StrategySymbol, 0, NewPortfolio(0, FALSE), <<>>)]

NoRSIStrategy == NewRSIStrategy(1, 30, 70)

\* _update_rsi, with calculated the last value of _calculate_rsi_values
update_rsi(st, calculated) ==
    IF Len(st.price_history) < st.period THEN NoRSI ELSE calculated

ErrorRsiCalcCurrentOnly(previous_rsi, current_rsi) == ~current_rsi.ok

\* on_new_tick: "if self.current_rsi is None or self.previous_rsi is None"
ErrorRsiCalc(previous_rsi, current_rsi) == ~current_rsi.ok \/ ~previous_rsi.ok

CrossingSignalByLevel(previous_rsi, current_rsi, oversold_threshold, overbought_threshold) ==
    IF previous_rsi <= oversold_threshold /\ current_rsi > oversold_threshold
    THEN "BUY"
    ELSE IF current_rsi < overbought_threshold THEN "SELL"
    ELSE "HOLD"

\* on_new_tick, lines 80 and 92-95: the signal of two defined RSI values
CrossingSignal(previous_rsi, current_rsi, oversold_threshold, overbought_threshold) ==
    IF previous_rsi <= oversold_threshold /\ current_rsi > oversold_threshold
    THEN "BUY"
    ELSE IF previous_rsi >= overbought_threshold
            /\ current_rsi < overbought_threshold
    THEN "SELL"
    ELSE "HOLD"

\* on_new_tick, lines 85 and 98-101
RSIDetails(message, rsi_value, prev_rsi, strategy_name) ==
    [message |-> message, rsi |-> rsi_value, prev_rsi |-> prev_rsi,
     strategy_name |-> strategy_name]

\* on_new_tick, lines 104-111
SignalEvent(symbol, timestamp, signal, price, details) ==
    [symbol |-> symbol, timestamp |-> timestamp, signal |-> signal,
     price |-> price, details |-> details]

\* on_new_tick from "self.previous_rsi = self.current_rsi" on
GenerateRSISignal(st, tick_price, timestamp, calculated) ==
    LET previous_rsi == st.current_rsi
        current_rsi == update_rsi(st, calculated)
        signal_type ==
            IF ErrorRsiCalc(previous_rsi, current_rsi) THEN "ERROR_RSI_CALC"
            ELSE CrossingSignal(previous_rsi.value, current_rsi.value,
                                st.oversold_threshold, st.overbought_threshold)
        details ==
            IF ErrorRsiCalc(previous_rsi, current_rsi)
            THEN RSIDetails("RSI calculation resulted in None or previous RSI is None.",
                            NoRSI, NoRSI, "")
            ELSE RSIDetails("", current_rsi, previous_rsi, "RealtimeRSIStrategy")
    IN  [st EXCEPT !.previous_rsi = previous_rsi,
                   !.current_rsi = current_rsi,
                   !.tick.sent = <<SignalEvent(StrategySymbol, timestamp, signal_type,
                                               tick_price, details)>>]

\* RealtimeRSIStrategy.on_new_tick
rsi_on_new_tick(st, symbol, tick_price, timestamp, calculated, pf, log) ==
    LET called == [st EXCEPT !.tick = RSITick("on_new_tick", symbol, tick_price, pf, log)]
        counted == [called EXCEPT
                       !.ticks_received = @ + 1,
                       !.price_history =
                           AppendPrice(@, st.period + 5, tick_price)]
    IN  IF symbol # StrategySymbol THEN called
        ELSE IF counted.ticks_received < counted.min_ticks_for_signal
        THEN IF counted.ticks_received >= counted.period
             THEN [counted EXCEPT !.current_rsi = update_rsi(counted, calculated)]
             ELSE counted
        ELSE GenerateRSISignal(counted, tick_price, timestamp, calculated)

----------------------------------------------------------------------------
(* The simulation control of backend/main_api.py.  A portfolio or engine is
   the id of the run that created it, 0 for None; run ids stand for the
   uuid4 strings, in order of creation.  The strategy classes are taken as
   imported, _calculate_rsi_values included.  The handlers and
   save_simulation_state have no suspension point, so each runs as one step
   of the event loop; the loop runs its ready steps first in, first out.
   Request parameters are valid and the data provider is the mock one. *)

MaxRuns == 2
MaxRequests == 3

StrategyIds == {"realtime_simple_ma", "realtime_rsi"}
RequestedStrategies == {"realtime_simple_ma", "realtime_rsi", "unknown"}
RiskParameterKeys == {"none", "known", "unknown_key"}
StartSimulationRequest == [strategy_id : RequestedStrategies,
                           risk_parameters : RiskParameterKeys]
NoRequest == [strategy_id |-> "", risk_parameters |-> "none"]

\* the module-level simulation_components
NoComponents ==
    [portfolio |-> 0, engine |-> 0, data_provider |-> FALSE, strategy |-> "None",
     strategy_info |-> "None", running |-> FALSE, run_id |-> 0, save_task |-> 0,
     klines_aggregator |-> FALSE]

\* MockPortfolio.to_dict and MockTradingEngine.to_dict: the serialisable
\* state of the object, here the run that created it
to_dict(component) == [created_by_run |-> component]

\* MockPortfolio.from_dict and MockTradingEngine.from_dict
from_dict(state) == state.created_by_run

\* startup_event with the state file of an earlier run
RestoredComponents(state_data) ==
    [NoComponents EXCEPT !.portfolio = from_dict(state_data.portfolio_state),
                         !.engine = from_dict(state_data.engine_state),
                         !.run_id = state_data.run_id,
                         !.strategy_info = state_data.strategy_info]

\* a task: pc is "ready" (a step of it is queued), "sleeping" or "done";
\* must_cancel is set by cancel() until the step that raises CancelledError
Task(kind, run_id) ==
    [kind |-> kind, run_id |-> run_id, pc |-> "ready", must_cancel |-> FALSE]

Step(kind, task, request) == [kind |-> kind, task |-> task, request |-> request]

NewEventLoop == [tasks |-> <<>>, ready |-> <<>>, next_run |-> 1, requests |-> 0]

NoResponse == [op |-> "none", request |-> NoRequest, status |-> 0,
               detail |-> "", before |-> NoComponents]

\* the API process: components, loop and files together
Process == [sc |-> simulation_components, loop |-> event_loop, files |-> snapshots]

\* loop.create_task / asyncio.create_task
create_task(p, kind, run_id) ==
    [p EXCEPT !.loop.tasks = Append(@, Task(kind, run_id)),
              !.loop.ready = Append(@, Step("task", Len(p.loop.tasks) + 1, NoRequest))]

\* Task.cancel: a sleeping task is woken to receive CancelledError
cancel(p, t) ==
    IF p.loop.tasks[t].pc = "sleeping"
    THEN [p EXCEPT !.loop.tasks[t].must_cancel = TRUE,
                   !.loop.tasks[t].pc = "ready",
                   !.loop.ready = Append(@, Step("task", t, NoRequest))]
    ELSE [p EXCEPT !.loop.tasks[t].must_cancel = TRUE]

\* the combined_state that save_simulation_state writes; by names the caller
Snapshot(run_id, sc, by) ==
    [run_id |-> run_id, portfolio_state |-> to_dict(sc.portfolio),
     engine_state |-> to_dict(sc.engine),
     strategy_info |-> sc.strategy_info, by |-> by]

\* save_simulation_state
save_simulation_state(p, run_id, by) ==
    IF run_id = 0 THEN p
    ELSE IF p.sc.portfolio = 0 \/ p.sc.engine = 0 THEN p
    ELSE [p EXCEPT !.files = @ \cup {Snapshot(run_id, p.sc, by)}]

\* stop_current_simulation
stop_current_simulation(p, clear_all_components) ==
    LET current_run_id == p.sc.run_id
        save_task == p.sc.save_task
        cancelled ==
            IF save_task # 0 /\ p.loop.tasks[save_task].pc # "done"
            THEN [cancel(p, save_task) EXCEPT !.sc.save_task = 0]
            ELSE p
        was_running == p.sc.running
        stopped ==
            [cancelled EXCEPT
                !.sc.strategy = IF clear_all_components THEN "None" ELSE @,
                !.sc.data_provider = IF clear_all_components THEN FALSE ELSE @,
                !.sc.running = FALSE]
        saved ==
            IF was_running /\ ~clear_all_components /\ current_run_id # 0
            THEN create_task(stopped, "final", current_run_id)
            ELSE stopped
    IN  IF ~(p.sc.running \/ clear_all_components) THEN cancelled
        ELSE IF clear_all_components
        THEN [saved EXCEPT !.sc.portfolio = 0, !.sc.engine = 0,
                           !.sc.strategy_info = "None", !.sc.run_id = 0,
                           !.sc.klines_aggregator = FALSE]
        ELSE saved

Responds(p, status, detail) == [p |-> p, status |-> status, detail |-> detail]

\* RealtimeSimpleMAStrategy(symbol=..., short_window=..., long_window=...,
\* signal_callback=..., verbose=True): data_provider is missing, TypeError
StrategyConstructorRaises(strategy_id) == strategy_id = "realtime_simple_ma"

\* start_simulation from the run id generation on
StartComponents(p, request) ==
    LET current_run_id == p.loop.next_run
        built == [p EXCEPT !.loop.next_run = @ + 1,
                           !.sc.run_id = current_run_id,
                           !.sc.data_provider = FALSE,
                           !.sc.strategy = "None",
                           !.sc.strategy_info = "None",
                           !.sc.save_task = 0,
                           !.sc.portfolio = current_run_id,
                           !.sc.engine = current_run_id]
        started == [built EXCEPT !.sc.strategy = request.strategy_id,
                                 !.sc.strategy_info = request.strategy_id,
                                 !.sc.data_provider = TRUE,
                                 !.sc.running = TRUE]
        tasked == [create_task(started, "periodic", current_run_id)
                      EXCEPT !.sc.save_task = Len(started.loop.tasks) + 1]
        saved == save_simulation_state(tasked, current_run_id, "initial")
    IN  IF StrategyConstructorRaises(request.strategy_id)
        THEN Responds(stop_current_simulation(built, TRUE), 500, "unexpected error")
        ELSE Responds([saved EXCEPT !.sc.klines_aggregator = TRUE], 200, "started")

\* start_simulation: "stop_current_simulation(clear_all_components=True)"
ClearsBeforeValidating(p) == stop_current_simulation(p, TRUE)

\* start_simulation
start_simulation(p, request) ==
    IF p.sc.running THEN Responds(p, 400, "already running")
    ELSE LET cleared == ClearsBeforeValidating(p)
         IN  IF request.strategy_id \notin StrategyIds
             THEN Responds(cleared, 404, "strategy not found")
             ELSE IF request.risk_parameters = "unknown_key"
             THEN Responds(cleared, 400, "unknown risk parameter key")
             ELSE StartComponents(cleared, request)

\* stop_simulation_api
stop_simulation_api(p) ==
    IF ~p.sc.running THEN Responds(p, 200, "not running")
    ELSE Responds(stop_current_simulation(p, FALSE), 200, "stopped")

\* resume_simulation
resume_simulation(p) ==
    LET sc == p.sc
        save_task == sc.save_task
        failed ==
            [(IF save_task # 0 /\ p.loop.tasks[save_task].pc # "done"
              THEN cancel(p, save_task) ELSE p)
                EXCEPT !.sc.data_provider = FALSE, !.sc.strategy = "None",
                       !.sc.running = FALSE, !.sc.save_task = 0]
        resumed == [p EXCEPT !.sc.data_provider = TRUE,
                             !.sc.strategy = sc.strategy_info,
                             !.sc.running = TRUE]
    IN  IF sc.running THEN Responds(p, 400, "already running")
        ELSE IF sc.portfolio = 0 \/ sc.engine = 0 \/ sc.run_id = 0
                \/ sc.strategy_info = "None"
        THEN Responds(p, 400, "no state to resume")
        ELSE IF StrategyConstructorRaises(sc.strategy_info)
        THEN Responds(failed, 500, "failed to resume")
        ELSE Responds([create_task(resumed, "periodic", sc.run_id)
                          EXCEPT !.sc.save_task = Len(resumed.loop.tasks) + 1],
                      200, "resumed")

\* one step of _periodic_save_task: up to the sleep, or to its end
periodic_save_task(p, t) ==
    LET run_id == p.loop.tasks[t].run_id
    IN  IF p.loop.tasks[t].must_cancel
        THEN [p EXCEPT !.loop.tasks[t].pc = "done",
                       !.loop.tasks[t].must_cancel = FALSE]
        ELSE IF ~p.sc.running \/ p.sc.run_id # run_id
        THEN [p EXCEPT !.loop.tasks[t].pc = "done"]
        ELSE [save_simulation_state(p, run_id, "periodic")
                 EXCEPT !.loop.tasks[t].pc = "sleeping"]

\* the task that stop_current_simulation creates for the final save
final_save_task(p, t) ==
    [save_simulation_state(p, p.loop.tasks[t].run_id, "final")
        EXCEPT !.loop.tasks[t].pc = "done"]

ApiUnchanged ==
    UNCHANGED <<portfolio, market_prices, engine_config, trade_log,
                trade_id_counter, active_risk_alerts, ntx, last, feed, klines,
                strategy, twin, signals, rsi>>

Becomes(p) ==
    /\ simulation_components' = p.sc
    /\ event_loop' = p.loop
    /\ snapshots' = p.files

Popped == [Process EXCEPT !.loop.ready = Tail(@)]

HeadIs(kind) == event_loop.ready # <<>> /\ Head(event_loop.ready).kind = kind

\* a request reaches the server and its handler is queued
RequestArrives ==
    /\ event_loop.requests < MaxRequests
    /\ \E step \in {Step("start", 0, r) : r \in StartSimulationRequest}
                   \cup {Step("stop", 0, NoRequest), Step("resume", 0, NoRequest)} :
          event_loop' = [event_loop EXCEPT !.ready = Append(@, step),
                                           !.requests = @ + 1]
    /\ UNCHANGED <<simulation_components, snapshots, response>>
    /\ ApiUnchanged

Handles(op, r) ==
    /\ Becomes(r.p)
    /\ response' = [op |-> op, request |-> Head(event_loop.ready).request,
                    status |-> r.status, detail |-> r.detail,
                    before |-> simulation_components]
    /\ ApiUnchanged

StartSimulation ==
    /\ HeadIs("start")
    /\ event_loop.next_run <= MaxRuns
    /\ Handles("start", start_simulation(Popped, Head(event_loop.ready).request))

StopSimulationApi ==
    /\ HeadIs("stop")
    /\ Handles("stop", stop_simulation_api(Popped))

ResumeSimulation ==
    /\ HeadIs("resume")
    /\ Handles("resume", resume_simulation(Popped))

PeriodicSaveTask ==
    /\ HeadIs("task")
    /\ event_loop.tasks[Head(event_loop.ready).task].kind = "periodic"
    /\ Becomes(periodic_save_task(Popped, Head(event_loop.ready).task))
    /\ UNCHANGED response
    /\ ApiUnchanged

FinalSaveTask ==
    /\ HeadIs("task")
    /\ event_loop.tasks[Head(event_loop.ready).task].kind = "final"
    /\ Becomes(final_save_task(Popped, Head(event_loop.ready).task))
    /\ UNCHANGED response
    /\ ApiUnchanged

\* asyncio.sleep(SAVE_INTERVAL_SECONDS) is over
SleepElapses ==
    \E t \in 1..Len(event_loop.tasks) :
        /\ event_loop.tasks[t].pc = "sleeping"
        /\ event_loop' = [event_loop EXCEPT
                             !.tasks[t].pc = "ready",
                             !.ready = Append(@, Step("task", t, NoRequest))]
        /\ UNCHANGED <<simulation_components, snapshots, response>>
        /\ ApiUnchanged

----------------------------------------------------------------------------
(* Specification of the portfolio driven directly *)

DefaultEngineConfig ==
    [fixed_trade_quantity |-> 0,
     risk_parameters |-> [stop_loss_pct |-> 0, max_pos_pct |-> 0, max_dd_pct |-> 0],
     has_callback |-> FALSE]

Init ==
    /\ \E c \in InitialCashValues, v \in BOOLEAN : portfolio = NewPortfolio(c, v)
    /\ market_prices = [s \in Symbols |-> None]
    /\ engine_config = DefaultEngineConfig
    /\ trade_log = <<>>
    /\ trade_id_counter = 0
    /\ active_risk_alerts = <<>>
    /\ ntx = 0
    /\ last = Idle(CurrentEngineState)
    /\ feed = NewProvider
    /\ klines = NewAggregator
    /\ response = NoResponse
    /\ snapshots = {}
    /\ event_loop = NewEventLoop
    /\ simulation_components = NoComponents
    /\ rsi = NoRSIStrategy
    /\ signals = <<>>
    /\ twin = NoTwin
    /\ strategy = NewStrategy(1, 2, TRUE)

EngineUnchanged ==
    UNCHANGED <<market_prices, engine_config, trade_log, trade_id_counter,
                active_risk_alerts, feed,
                   klines, strategy, twin, signals, rsi, simulation_components, event_loop, snapshots, response>>

RecordTransaction ==
    \E symbol \in Symbols, transaction_type \in TransactionTypes,
       quantity \in Quantities, price \in TxPrices :
        LET r == record_transaction(portfolio, symbol, transaction_type, quantity, price)
        IN  /\ IsIdle
            /\ ntx < MaxTx
            /\ portfolio' = r.pf
            /\ ntx' = IF r.ret THEN ntx + 1 ELSE ntx
            /\ last' = CallRecord("record_transaction",
                            [NoArgs EXCEPT !.symbol = symbol,
                                           !.transaction_type = transaction_type,
                                           !.quantity = quantity, !.price = price],
                            portfolio, CurrentEngineState, Returned(r.ret, RInt(0)))
            /\ EngineUnchanged

GetTotalPortfolioValue ==
    \E cb \in Callbacks :
        LET r == get_total_portfolio_value(portfolio, cb)
        IN  /\ IsIdle
            /\ portfolio' = r.pf
            /\ last' = CallRecord("get_total_portfolio_value",
                            [NoArgs EXCEPT !.cb = cb], portfolio, CurrentEngineState,
                            Returned(TRUE, RInt(r.ret)))
            /\ UNCHANGED ntx
            /\ EngineUnchanged

GetHoldingsValue ==
    \E cb \in Callbacks :
        /\ IsIdle
        /\ last' = CallRecord("get_holdings_value",
                        [NoArgs EXCEPT !.cb = cb], portfolio, CurrentEngineState,
                        Returned(TRUE, RInt(get_holdings_value(portfolio, cb))))
        /\ UNCHANGED <<portfolio, ntx>>
        /\ EngineUnchanged

GetUnrealizedPnl ==
    \E cb \in Callbacks :
        /\ IsIdle
        /\ last' = CallRecord("get_unrealized_pnl",
                        [NoArgs EXCEPT !.cb = cb], portfolio, CurrentEngineState,
                        Returned(TRUE, get_unrealized_pnl(portfolio, cb)))
        /\ UNCHANGED <<portfolio, ntx>>
        /\ EngineUnchanged

\* check_stop_loss_per_position on the holdings details of the portfolio
CheckStopLossPerPosition ==
    /\ IsIdle
    /\ \E cb \in Callbacks, pct \in RiskPercents :
          last' = CallRecord("check_stop_loss_per_position",
                      [NoArgs EXCEPT !.cb = cb, !.pct = pct],
                      portfolio, CurrentEngineState,
                      ReturnedAlerts(check_stop_loss_per_position(
                          get_holdings_with_details(portfolio, cb), pct)))
    /\ UNCHANGED <<portfolio, ntx>>
    /\ EngineUnchanged

\* check_max_position_size without a trade context, given the holdings details
\* of the portfolio and its total value at the same prices
CheckMaxPositionSize ==
    /\ IsIdle
    /\ \E cb \in Callbacks, pct \in RiskPercents :
          last' = CallRecord("check_max_position_size",
                      [NoArgs EXCEPT !.cb = cb, !.pct = pct],
                      portfolio, CurrentEngineState,
                      ReturnedAlerts(check_max_position_size(
                          get_holdings_with_details(portfolio, cb),
                          portfolio.cash + get_holdings_value(portfolio, cb),
                          pct, NoTradeContext)))
    /\ UNCHANGED <<portfolio, ntx>>
    /\ EngineUnchanged

\* the caller takes the result and goes on to its next call
Return ==
    /\ ~IsIdle
    /\ last' = Idle(CurrentEngineState)
    /\ UNCHANGED <<portfolio, ntx>>
    /\ EngineUnchanged

Next ==
    \/ RecordTransaction
    \/ GetTotalPortfolioValue
    \/ GetHoldingsValue
    \/ GetUnrealizedPnl
    \/ CheckStopLossPerPosition
    \/ CheckMaxPositionSize
    \/ Return

Spec == Init /\ [][Next]_vars

----------------------------------------------------------------------------
(* Specification of the engine driven by signal events and market moves *)

MaxTrades == 3

MarketValues == {None, Some(3), Some(5)}
Signals == {"BUY", "SELL", "HOLD", "WARMING_UP", "ERROR"}
EventPrices == {Some(0), Some(4), Some(5)}
Timestamps == {7}
EngineCashValues == {10}
FixedTradeQuantities == {1, 2}
RiskParameterChoices ==
    {[stop_loss_pct |-> 25, max_pos_pct |-> 40, max_dd_pct |-> 10]}

CompleteEvents ==
    [signal : Signals, symbol : Symbols, price : EventPrices, timestamp : Timestamps]

\* events with the signal, the symbol or the price missing
IncompleteEvents ==
    {[e EXCEPT !.signal = ""] : e \in {e \in CompleteEvents : e.price = Some(4)}}
    \cup {[e EXCEPT !.symbol = ""] : e \in {e \in CompleteEvents : e.price = Some(4)}}
    \cup {[e EXCEPT !.price = None] : e \in {e \in CompleteEvents : e.signal = "BUY"}}

Events == CompleteEvents \cup IncompleteEvents

\* MockTradingEngine.__init__ around a fresh portfolio
InitEngine ==
    /\ \E c \in EngineCashValues, v \in BOOLEAN : portfolio = NewPortfolio(c, v)
    /\ market_prices \in [Symbols -> MarketValues]
    /\ \E q \in FixedTradeQuantities, rp \in RiskParameterChoices, cb \in BOOLEAN :
          engine_config = [fixed_trade_quantity |-> q, risk_parameters |-> rp,
                           has_callback |-> cb]
    /\ trade_log = <<>>
    /\ trade_id_counter = 0
    /\ active_risk_alerts = <<>>
    /\ ntx = 0
    /\ last = Idle(CurrentEngineState)
    /\ feed = NewProvider
    /\ klines = NewAggregator
    /\ response = NoResponse
    /\ snapshots = {}
    /\ event_loop = NewEventLoop
    /\ simulation_components = NoComponents
    /\ rsi = NoRSIStrategy
    /\ signals = <<>>
    /\ twin = NoTwin
    /\ strategy = NewStrategy(1, 2, TRUE)

HandleSignalEvent ==
    /\ IsIdle
    /\ trade_id_counter < MaxTrades
    /\ \E event \in Events :
        \E h \in {handle_signal_event(CurrentEngineState, engine_config,
                                      market_prices, event)} :
            /\ portfolio' = h.es.portfolio
            /\ trade_log' = h.es.trade_log
            /\ trade_id_counter' = h.es.trade_id_counter
            /\ active_risk_alerts' = h.es.active_risk_alerts
            /\ ntx' = Len(h.es.trade_log)
            /\ last' = CallRecord("handle_signal_event",
                            [NoArgs EXCEPT !.event = event],
                            portfolio, CurrentEngineState,
                            [Returned(h.outcome = "traded", RInt(0))
                                EXCEPT !.outcome = h.outcome])
            /\ UNCHANGED <<market_prices, engine_config, feed,
                   klines, strategy, twin, signals, rsi, simulation_components, event_loop, snapshots, response>>

\* the market moves: the price the callback returns for one symbol changes
MarketMove ==
    \E s \in Symbols, v \in MarketValues :
        /\ IsIdle
        /\ market_prices[s] # v
        /\ market_prices' = [market_prices EXCEPT ![s] = v]
        /\ UNCHANGED <<portfolio, engine_config, trade_log, trade_id_counter,
                       active_risk_alerts, ntx, last, feed,
                   klines, strategy, twin, signals, rsi, simulation_components, event_loop, snapshots, response>>

ReturnToCaller ==
    /\ ~IsIdle
    /\ last' = Idle(CurrentEngineState)
    /\ UNCHANGED <<portfolio, market_prices, engine_config, trade_log,
                   trade_id_counter, active_risk_alerts, ntx, feed,
                   klines, strategy, twin, signals, rsi, simulation_components, event_loop, snapshots, response>>

NextEngine ==
    \/ HandleSignalEvent
    \/ MarketMove
    \/ ReturnToCaller

SpecEngine == InitEngine /\ [][NextEngine]_vars

----------------------------------------------------------------------------
(* Properties of the ledger, checked under Spec *)

LastIs(op) == last.op = op
LastBuy == LastIs("record_transaction") /\ Upper(last.args.transaction_type) = "BUY"
LastSell == LastIs("record_transaction") /\ Upper(last.args.transaction_type) = "SELL"
Unchanged == portfolio = last.before

\* C3: the holdings map never contains an entry whose quantity is 0, so a
\* fully-sold symbol is absent from holdings.
C3_NoZeroQuantityHolding ==
    \A i \in 1..Len(portfolio.holdings) : portfolio.holdings[i].quantity # 0

\* C4: cash is >= 0 in every reachable state of a portfolio created with
\* non-negative initial cash, after successful and after refused operations.
C4_CashNonNegative == portfolio.cash >= 0

C4_Witness ==
    /\ LastBuy /\ last.ret.ok
    /\ portfolio.cash = 0
    /\ last.before.cash > 0

\* C5: a BUY whose cost quantity x price exceeds the available cash returns
\* false and leaves cash, holdings, realized P&L and peak net worth as they were.
C5_BuyBeyondCashRejected ==
    (LastBuy /\ last.args.quantity * last.args.price > last.before.cash)
        => (~last.ret.ok /\ Unchanged)

C5_Witness ==
    /\ LastBuy
    /\ last.args.quantity > 0 /\ last.args.price > 0
    /\ last.args.quantity * last.args.price > last.before.cash
    /\ last.before.holdings # <<>>

\* C6: a SELL of more shares than are held of the symbol (held or not held at
\* all) returns false and leaves the portfolio unchanged, and no holding's
\* quantity is negative in any reachable state.
C6_OversellRejected ==
    /\ (LastSell
        /\ last.args.quantity > QuantityHeld(last.before.holdings, last.args.symbol))
            => (~last.ret.ok /\ Unchanged)
    /\ \A i \in 1..Len(portfolio.holdings) : portfolio.holdings[i].quantity >= 0

C6_Witness ==
    /\ LastSell
    /\ last.args.price > 0
    /\ QuantityHeld(last.before.holdings, last.args.symbol) > 0
    /\ last.args.quantity > QuantityHeld(last.before.holdings, last.args.symbol)

\* C7: record_transaction with quantity <= 0, with price <= 0, or with a kind
\* that is (after case folding) neither BUY nor SELL returns false and leaves
\* cash, holdings, realized P&L and peak net worth unchanged.
C7_InvalidInputRejected ==
    (LastIs("record_transaction")
     /\ \/ last.args.quantity <= 0
        \/ last.args.price <= 0
        \/ Upper(last.args.transaction_type) \notin {"BUY", "SELL"})
        => (~last.ret.ok /\ Unchanged)

C7_Witness ==
    /\ LastBuy
    /\ last.args.quantity = 0
    /\ last.args.price > 0
    /\ last.before.holdings # <<>>
    /\ ~last.ret.ok

\* C8: after a successful BUY of q at p on a symbol held with (oldQty, oldAvg)
\* the holding is (oldQty + q, (oldAvg*oldQty + q*p)/(oldQty + q)); for a symbol
\* not held it is (q, p); cash decreases by exactly q*p; realized P&L is unchanged.
C8_BuyWeightedAverage ==
    (LastBuy /\ last.ret.ok) =>
        LET s == last.args.symbol
            q == last.args.quantity
            p == last.args.price
            new == PositionOf(portfolio.holdings, s)
        IN  /\ HasPosition(portfolio.holdings, s)
            /\ IF HasPosition(last.before.holdings, s)
               THEN LET old == PositionOf(last.before.holdings, s)
                        oa == old.average_cost_price
                        na == new.average_cost_price
                    IN  /\ new.quantity = old.quantity + q
                        /\ na.d > 0
                        /\ na.n * oa.d * (old.quantity + q)
                              = na.d * (oa.n * old.quantity + q * p * oa.d)
               ELSE /\ new.quantity = q
                    /\ new.average_cost_price = [n |-> p, d |-> 1]
            /\ portfolio.cash = last.before.cash - q * p
            /\ portfolio.realized_pnl = last.before.realized_pnl

C8_Witness ==
    /\ LastBuy /\ last.ret.ok
    /\ HasPosition(last.before.holdings, last.args.symbol)
    /\ PositionOf(last.before.holdings, last.args.symbol).quantity > 0
    /\ PositionOf(last.before.holdings, last.args.symbol).average_cost_price.n
          # last.args.price
    /\ PositionOf(portfolio.holdings, last.args.symbol).average_cost_price.d > 1

\* C9: peakNetWorth never decreases; it changes only inside a valuation call,
\* never inside record_transaction; and right after a valuation returning
\* totalValue it equals max(previous peak, totalValue), hence is >= totalValue.
C9_PeakMonotone ==
    LET peak == portfolio.peak_portfolio_value
        prev == last.before.peak_portfolio_value
    IN  /\ peak >= prev
        /\ ~LastIs("get_total_portfolio_value") => peak = prev
        /\ LastIs("get_total_portfolio_value") =>
              /\ last.ret.value.d = 1
              /\ peak = (IF last.ret.value.n > prev THEN last.ret.value.n ELSE prev)
              /\ peak >= last.ret.value.n

C9_Witness ==
    /\ LastIs("get_total_portfolio_value")
    /\ last.ret.value.n < last.before.peak_portfolio_value
    /\ last.before.peak_portfolio_value > last.before.cash
    /\ last.before.holdings # <<>>

\* what a valuation must add up for the holdings: quantity x price for every
\* holding whose looked-up price is present and positive, nothing for the others
ExpectedTerm(entry, f) ==
    IF f[entry.symbol].ok /\ f[entry.symbol].price > 0
    THEN entry.quantity * f[entry.symbol].price
    ELSE 0

RECURSIVE ExpectedValueUpTo(_, _, _)
ExpectedValueUpTo(h, f, k) ==
    IF k = 0 THEN 0 ELSE ExpectedValueUpTo(h, f, k - 1) + ExpectedTerm(h[k], f)

\* (price - avgCost) x quantity, as a fraction over the average cost's denominator
ExpectedPnlNumerator(entry, f, den) ==
    IF f[entry.symbol].ok /\ f[entry.symbol].price > 0
    THEN (f[entry.symbol].price * entry.average_cost_price.d
            - entry.average_cost_price.n)
         * entry.quantity * (den \div entry.average_cost_price.d)
    ELSE 0

RECURSIVE DenProduct(_, _)
DenProduct(h, k) ==
    IF k = 0 THEN 1 ELSE DenProduct(h, k - 1) * h[k].average_cost_price.d

RECURSIVE ExpectedPnlUpTo(_, _, _, _)
ExpectedPnlUpTo(h, f, den, k) ==
    IF k = 0 THEN 0
    ELSE ExpectedPnlUpTo(h, f, den, k - 1) + ExpectedPnlNumerator(h[k], f, den)

\* C10: a valuation in which the lookup gives no price or a non-positive price
\* for some held symbol completes: that holding contributes 0 to holdings value
\* and to unrealized P&L, every other holding contributes quantity x price, and
\* total value = cash + that sum.
C10_InvalidPriceContributesZero ==
    LET h == last.before.holdings
        f == last.args.cb.f
        expected == ExpectedValueUpTo(h, f, Len(h))
        den == DenProduct(h, Len(h))
    IN  last.args.cb.set =>
          /\ LastIs("get_holdings_value") =>
                last.ret.value = [n |-> expected, d |-> 1]
          /\ LastIs("get_total_portfolio_value") =>
                last.ret.value = [n |-> last.before.cash + expected, d |-> 1]
          /\ LastIs("get_unrealized_pnl") =>
                last.ret.value.n * den
                    = last.ret.value.d * ExpectedPnlUpTo(h, f, den, Len(h))

InvalidPriceCase(op) ==
    /\ LastIs(op)
    /\ last.args.cb.set
    /\ \E i, j \in 1..Len(last.before.holdings) :
          /\ last.before.holdings[i].quantity > 0
          /\ last.before.holdings[j].quantity > 0
          /\ ~(last.args.cb.f[last.before.holdings[i].symbol].ok
               /\ last.args.cb.f[last.before.holdings[i].symbol].price > 0)
          /\ last.args.cb.f[last.before.holdings[j].symbol].ok
          /\ last.args.cb.f[last.before.holdings[j].symbol].price > 0

C10_Witness ==
    /\ InvalidPriceCase("get_unrealized_pnl")
    /\ last.ret.value.n # 0

----------------------------------------------------------------------------
(* Properties of the engine, checked under SpecEngine *)

LastEvent == last.args.event
LastHandled == LastIs("handle_signal_event")
LastCompleteSignal(kind) ==
    /\ LastHandled
    /\ LastEvent.symbol # "" /\ LastEvent.price.ok
    /\ Upper(LastEvent.signal) = kind

\* cash, holdings and realized P&L are as before the call
LedgerUnchanged ==
    /\ portfolio.cash = last.before.cash
    /\ portfolio.holdings = last.before.holdings
    /\ portfolio.realized_pnl = last.before.realized_pnl

TradeLogUnchanged == trade_log = last.engine_before.trade_log

\* total portfolio value at the market prices in force during the call
TotalValueBefore ==
    last.before.cash
    + ExpectedValueUpTo(last.before.holdings, market_prices, Len(last.before.holdings))

\* market value of the signal's symbol after the BUY, at the signal price
PotentialPositionValue ==
    (QuantityHeld(last.before.holdings, LastEvent.symbol)
        + engine_config.fixed_trade_quantity) * LastEvent.price.price

\* the ratio test of the pre-trade check: potential / total > maxPositionPct
PotentialExceedsLimit ==
    /\ TotalValueBefore > 0
    /\ PotentialPositionValue * 100
          > engine_config.risk_parameters.max_pos_pct * TotalValueBefore

\* market value of the signal's symbol as held before the call
HeldPositionValue ==
    IF HasPosition(last.before.holdings, LastEvent.symbol)
    THEN ExpectedTerm(PositionOf(last.before.holdings, LastEvent.symbol), market_prices)
    ELSE 0

HeldExceedsLimit ==
    /\ TotalValueBefore > 0
    /\ HeldPositionValue * 100
          > engine_config.risk_parameters.max_pos_pct * TotalValueBefore

HasAlert(alert_type, symbol) ==
    \E i \in 1..Len(active_risk_alerts) :
        /\ active_risk_alerts[i].alert_type = alert_type
        /\ active_risk_alerts[i].symbol = symbol

\* C1: for every BUY signal handled by an engine that has a price callback, in
\* every reachable portfolio state: if (quantity held + fixed trade size) x
\* signal price / current total value > maxPositionPct, the BUY is blocked: the
\* ledger is unchanged and the trade log does not grow.
C1_BuyOverLimitBlocked ==
    (LastCompleteSignal("BUY") /\ engine_config.has_callback /\ PotentialExceedsLimit)
        => (LedgerUnchanged /\ Len(trade_log) = Len(last.engine_before.trade_log))

\* C2: when the pre-trade max-position check fires for a BUY signal (the ratio
\* test holds and the check raises its pre-trade alert), the handler aborts the
\* trade: cash, holdings and realized P&L are unchanged, no trade record is
\* appended, and a MAX_POSITION_SIZE_PRE_TRADE alert for the signal's symbol is
\* in the active alerts when the handler returns.
C2_VetoAbortsTrade ==
    (LastCompleteSignal("BUY") /\ engine_config.has_callback
     /\ PotentialExceedsLimit /\ ~HeldExceedsLimit)
        => /\ LedgerUnchanged
           /\ TradeLogUnchanged
           /\ trade_id_counter = last.engine_before.trade_id_counter
           /\ HasAlert("MAX_POSITION_SIZE_PRE_TRADE", LastEvent.symbol)

C2_Witness ==
    /\ LastCompleteSignal("BUY") /\ engine_config.has_callback
    /\ PotentialExceedsLimit /\ ~HeldExceedsLimit
    /\ last.ret.outcome = "vetoed"
    /\ last.before.cash >= engine_config.fixed_trade_quantity * LastEvent.price.price
    /\ HasPosition(last.before.holdings, LastEvent.symbol)

----------------------------------------------------------------------------
(* Properties of the signal handler's paths, checked under SpecEngine *)

NoActionSignals == {"HOLD", "WARMING_UP", "ERROR"}

LastNoActionSignal == \E kind \in NoActionSignals : LastCompleteSignal(kind)

\* the lookup the engine values its portfolio with
EngineLookup ==
    IF engine_config.has_callback THEN Callback(market_prices) ELSE NoCallback

\* the alerts an evaluation of the portfolio pf yields, valued through cb,
\* without a trade context
EvaluationOf(pf, cb) ==
    LET tv == get_total_portfolio_value(pf, cb)
    IN  evaluate_all_risks(
            [holdings_details |-> get_holdings_with_details(pf, cb),
             total_value |-> tv.ret,
             peak_value |-> tv.pf.peak_portfolio_value],
            engine_config.risk_parameters, NoTradeContext)

\* the active alerts are those of an evaluation of the portfolio as it is now
AlertsRefreshed == active_risk_alerts = EvaluationOf(portfolio, EngineLookup)

\* C11 as stated: for every signal event of kind HOLD, WARMING_UP or ERROR the
\* handler leaves cash, holdings, realized P&L and the trade log unchanged and
\* the active alerts are those of a risk evaluation of the current portfolio.
C11_NoActionSignalStillEvaluates ==
    LastNoActionSignal => (LedgerUnchanged /\ TradeLogUnchanged /\ AlertsRefreshed)

\* C11 amended: the same for an engine that has a price callback; an engine
\* without one changes nothing at all, its alerts included.
C11_NoActionSignalEvaluatesWithCallback ==
    LastNoActionSignal =>
        /\ LedgerUnchanged
        /\ TradeLogUnchanged
        /\ trade_id_counter = last.engine_before.trade_id_counter
        /\ IF engine_config.has_callback
           THEN AlertsRefreshed
           ELSE /\ portfolio = last.before
                /\ active_risk_alerts = last.engine_before.active_risk_alerts

\* a HOLD that replaces the alert set: a stop-loss alert appears after a fall
\* of the price and an alert of the previous evaluation is gone
C11_Witness ==
    /\ LastCompleteSignal("HOLD") /\ engine_config.has_callback
    /\ HasAlert("STOP_LOSS_PER_POSITION", LastEvent.symbol)
    /\ \A i \in 1..Len(last.engine_before.active_risk_alerts) :
          last.engine_before.active_risk_alerts[i].alert_type # "STOP_LOSS_PER_POSITION"
    /\ \E i \in 1..Len(last.engine_before.active_risk_alerts) :
          last.engine_before.active_risk_alerts[i] \notin
              {active_risk_alerts[j] : j \in 1..Len(active_risk_alerts)}

LastTradeSignal == LastCompleteSignal("BUY") \/ LastCompleteSignal("SELL")
LastNotVetoed == LastTradeSignal /\ last.ret.outcome # "vetoed"

\* what Portfolio.record_transaction answers to the signal's trade
LastApplyTransaction ==
    record_transaction(last.before, LastEvent.symbol, Upper(LastEvent.signal),
                       engine_config.fixed_trade_quantity, LastEvent.price.price)

\* the log is the log before the call followed by one record of the signal
LogGrewByTheSignal ==
    /\ Len(trade_log) = Len(last.engine_before.trade_log) + 1
    /\ SubSeq(trade_log, 1, Len(trade_log) - 1) = last.engine_before.trade_log
    /\ LET rec == trade_log[Len(trade_log)]
       IN  /\ rec.symbol = LastEvent.symbol
           /\ rec.type = Upper(LastEvent.signal)
           /\ rec.timestamp = LastEvent.timestamp
           /\ rec.price = LastEvent.price.price
           /\ rec.quantity = engine_config.fixed_trade_quantity
           /\ rec.total_value = engine_config.fixed_trade_quantity * LastEvent.price.price

\* cash, holdings and realized P&L are those the successful transaction left
LedgerOfTheTransaction ==
    /\ portfolio.cash = LastApplyTransaction.pf.cash
    /\ portfolio.holdings = LastApplyTransaction.pf.holdings
    /\ portfolio.realized_pnl = LastApplyTransaction.pf.realized_pnl

C13_TradeLogAppendOnly ==
    /\ \A i, j \in 1..Len(trade_log) :
          i < j => trade_log[i].trade_id < trade_log[j].trade_id
    /\ Len(trade_log) >= Len(last.engine_before.trade_log)
    /\ SubSeq(trade_log, 1, Len(last.engine_before.trade_log))
          = last.engine_before.trade_log

\* a second record appended after a refused trade used up an id in between
C13_Witness ==
    /\ LastHandled /\ last.ret.outcome = "traded"
    /\ Len(trade_log) = 2
    /\ trade_log[2].trade_id > trade_log[1].trade_id + 1

AlertSet(alerts) == {alerts[i] : i \in 1..Len(alerts)}

\* the handler evaluated risk: the event was complete and the engine has a callback
LastEvaluated ==
    /\ LastHandled /\ engine_config.has_callback
    /\ last.ret.outcome # "incomplete"

\* the alerts of the handler's last evaluation: those of the portfolio as it
\* is, and the pre-trade alert when that evaluation vetoed the BUY
AlertsOfLastEvaluation ==
    AlertSet(EvaluationOf(portfolio, EngineLookup))
    \cup (IF last.ret.outcome = "vetoed"
          THEN {RiskAlert("MAX_POSITION_SIZE_PRE_TRADE", LastEvent.symbol)}
          ELSE {})

\* C14: after every risk evaluation the active alerts are exactly the alerts
\* that evaluation produced, each once: an alert whose condition no longer
\* holds is absent and nothing of an earlier evaluation is retained.
C14_AlertsReplaced ==
    LastEvaluated =>
        /\ AlertSet(active_risk_alerts) = AlertsOfLastEvaluation
        /\ Cardinality(AlertSet(active_risk_alerts)) = Len(active_risk_alerts)

\* an evaluation that drops the drawdown alert of the one before it and
\* raises another alert
C14_Witness ==
    /\ LastEvaluated
    /\ RiskAlert("MAX_ACCOUNT_DRAWDOWN", NoSymbol)
          \in AlertSet(last.engine_before.active_risk_alerts)
    /\ ~HasAlert("MAX_ACCOUNT_DRAWDOWN", NoSymbol)
    /\ active_risk_alerts # <<>>

\* C15: every BUY or SELL signal that yields no trade record (vetoed, or
\* refused by the portfolio) leaves, when the handler returns, an alert in the
\* active alerts that explains the refusal; read generously: at least an
\* alert that names the signal's symbol.
C15_RefusalLeavesAlert ==
    (LastTradeSignal /\ TradeLogUnchanged) =>
        \E a \in AlertSet(active_risk_alerts) : a.symbol = LastEvent.symbol

\* total value of the portfolio as it is, at the market prices in force
TotalValueNow ==
    portfolio.cash
    + ExpectedValueUpTo(portfolio.holdings, market_prices, Len(portfolio.holdings))

\* (peakNetWorth - totalValue) / peakNetWorth compared with maxDrawdownPct
DrawdownExceedsLimit ==
    (portfolio.peak_portfolio_value - TotalValueNow) * 100
        > engine_config.risk_parameters.max_dd_pct * portfolio.peak_portfolio_value

DrawdownAtLimit ==
    (portfolio.peak_portfolio_value - TotalValueNow) * 100
        = engine_config.risk_parameters.max_dd_pct * portfolio.peak_portfolio_value

\* C16: driving the engine with price changes, after every evaluation a
\* MAX_ACCOUNT_DRAWDOWN alert without symbol is in the active alerts exactly
\* when (peak - total) / peak > maxDrawdownPct: it is raised above the limit,
\* not raised at the limit, and absent after the next evaluation once the
\* total value is back above peak x (1 - maxDrawdownPct).
C16_DrawdownAlertTracksValue ==
    (LastEvaluated /\ portfolio.peak_portfolio_value > 0) =>
        (HasAlert("MAX_ACCOUNT_DRAWDOWN", NoSymbol) <=> DrawdownExceedsLimit)

\* the value recovers to exactly the limit: the alert of the evaluation
\* before is gone
C16_Witness ==
    /\ LastEvaluated
    /\ RiskAlert("MAX_ACCOUNT_DRAWDOWN", NoSymbol)
          \in AlertSet(last.engine_before.active_risk_alerts)
    /\ DrawdownAtLimit
    /\ TotalValueNow < portfolio.peak_portfolio_value
    /\ ~HasAlert("MAX_ACCOUNT_DRAWDOWN", NoSymbol)

----------------------------------------------------------------------------
(* Properties of the risk checks, checked under Spec *)

\* what the lookup of the last call answers for a symbol
LastLookup(symbol) == IF last.args.cb.set THEN last.args.cb.f[symbol] ELSE None

HoldingsOf(pf) == {pf.holdings[i] : i \in 1..Len(pf.holdings)}

\* a valid current price and (currentPrice - avgCost) / avgCost <= -stopLossPct,
\* for the positive average cost n/d of a holding
BelowStopLoss(entry, cp, pct) ==
    /\ cp.ok /\ cp.price > 0
    /\ (cp.price * entry.average_cost_price.d - entry.average_cost_price.n) * 100
          <= -pct * entry.average_cost_price.n

StopLossSymbols ==
    {h.symbol : h \in {h \in HoldingsOf(portfolio) :
                            BelowStopLoss(h, LastLookup(h.symbol), last.args.pct)}}

\* C17: the stop-loss check emits a STOP_LOSS_PER_POSITION alert naming the
\* symbol of a holding if and only if the holding has a valid current price
\* and (currentPrice - avgCost) / avgCost <= -stopLossPct, for every
\* stopLossPct >= 0: exactly one alert per such holding, none for the others.
C17_StopLossIffBelowLimit ==
    LastIs("check_stop_loss_per_position") =>
        /\ AlertSet(last.ret.alerts)
              = {RiskAlert("STOP_LOSS_PER_POSITION", sym) : sym \in StopLossSymbols}
        /\ Len(last.ret.alerts) = Cardinality(StopLossSymbols)

\* total portfolio value the last call was given: cash and the market value of
\* the holdings at the looked-up prices
LastTotalValue ==
    last.before.cash
    + ExpectedValueUpTo(last.before.holdings, last.args.cb.f, Len(last.before.holdings))

\* marketValue / totalPortfolioValue > maxPositionPct, for a total above 0
OverPositionLimit(entry) ==
    /\ LastTotalValue > 0
    /\ ExpectedTerm(entry, last.args.cb.f) * 100 > last.args.pct * LastTotalValue

OverLimitSymbols ==
    {h.symbol : h \in {h \in HoldingsOf(last.before) : OverPositionLimit(h)}}

\* C18: the post-trade max-position check emits a MAX_POSITION_SIZE alert for
\* a holding if and only if marketValue / totalPortfolioValue > maxPositionPct
\* (strictly; equality raises nothing), one alert per such holding; with a
\* total portfolio value of 0 it emits no alert.
C18_MaxPositionIffOverLimit ==
    LastIs("check_max_position_size") =>
        /\ AlertSet(last.ret.alerts)
              = {RiskAlert("MAX_POSITION_SIZE", sym) : sym \in OverLimitSymbols}
        /\ Len(last.ret.alerts) = Cardinality(OverLimitSymbols)
        /\ LastTotalValue = 0 => last.ret.alerts = <<>>

\* two holdings, one over the limit and alerted, the other exactly at the
\* limit and not alerted
C18_Witness ==
    /\ LastIs("check_max_position_size")
    /\ Len(last.ret.alerts) = 1
    /\ \E h \in HoldingsOf(last.before) :
          /\ h.symbol \notin OverLimitSymbols
          /\ ExpectedTerm(h, last.args.cb.f) > 0
          /\ ExpectedTerm(h, last.args.cb.f) * 100 = last.args.pct * LastTotalValue

----------------------------------------------------------------------------
(* Specification of the tick provider driven by start() and stop() *)

InitFeed ==
    /\ portfolio = NewPortfolio(0, FALSE)
    /\ market_prices = [s \in Symbols |-> None]
    /\ engine_config = DefaultEngineConfig
    /\ trade_log = <<>>
    /\ trade_id_counter = 0
    /\ active_risk_alerts = <<>>
    /\ ntx = 0
    /\ last = Idle(CurrentEngineState)
    /\ feed = NewProvider
    /\ klines = NewAggregator
    /\ response = NoResponse
    /\ snapshots = {}
    /\ event_loop = NewEventLoop
    /\ simulation_components = NoComponents
    /\ rsi = NoRSIStrategy
    /\ signals = <<>>
    /\ twin = NoTwin
    /\ strategy = NewStrategy(1, 2, TRUE)

NextFeed ==
    \/ Start
    \/ Stop
    \/ JoinReturns
    \/ JoinTimesOut
    \/ \E t \in LoopIds : TestRunning(t)
    \/ \E t \in LoopIds : TickSymbol(t)
    \/ \E t \in LoopIds : InvokeCallback(t)
    \/ \E t \in LoopIds : CallbackReturns(t)
    \/ \E t \in LoopIds : FinishSymbol(t)
    \/ Subscribe
    \/ Unsubscribe
    \/ \E t \in LoopIds : Wake(t)

SpecFeed == InitFeed /\ [][NextFeed]_vars

----------------------------------------------------------------------------
(* Specification of the bar aggregator: ticks and resets in any order *)

InitKlines == InitFeed

NextKlines ==
    \/ UpdateWithTick
    \/ ResetSymbolInterval
    \/ ResetAll

SpecKlines == InitKlines /\ [][NextKlines]_vars

----------------------------------------------------------------------------
(* Specification of the moving-average strategy: a strategy of any of the
   window pairs, with or without signal_callback, verbose or not, receives
   ticks *)

InitStrategy ==
    /\ portfolio = NewPortfolio(0, FALSE)
    /\ market_prices = [s \in Symbols |-> None]
    /\ engine_config = DefaultEngineConfig
    /\ trade_log = <<>>
    /\ trade_id_counter = 0
    /\ active_risk_alerts = <<>>
    /\ ntx = 0
    /\ last = Idle(CurrentEngineState)
    /\ feed = NewProvider
    /\ klines = NewAggregator
    /\ response = NoResponse
    /\ snapshots = {}
    /\ event_loop = NewEventLoop
    /\ simulation_components = NoComponents
    /\ rsi = NoRSIStrategy
    /\ signals = <<>>
    /\ twin = NoTwin
    /\ \E w \in Windows, has_callback \in BOOLEAN, verbose \in BOOLEAN :
          strategy = [NewStrategy(w[1], w[2], has_callback) EXCEPT
                         !.verbose = verbose]

NextStrategy == OnNewTick

SpecStrategy == InitStrategy /\ [][NextStrategy]_vars

----------------------------------------------------------------------------
(* Specification of the end-to-end run of main_realtime_test.py: a strategy
   whose signal_callback is the engine's handle_signal_event receives up to
   MaxScenarioTicks ticks for its symbol *)

MaxScenarioTicks == 5

initial_cash == 100000
fixed_trade_qty == 100
ScenarioPrices == {100, 102, 103, 105, 108}
ScenarioMarket == [s \in Symbols |-> IF s = StrategySymbol THEN Some(103) ELSE None]

InitEndToEnd ==
    /\ portfolio = NewPortfolio(initial_cash, FALSE)
    /\ market_prices = ScenarioMarket
    /\ \E rp \in RiskParameterChoices, cb \in BOOLEAN :
          engine_config = [fixed_trade_quantity |-> fixed_trade_qty,
                           risk_parameters |-> rp, has_callback |-> cb]
    /\ trade_log = <<>>
    /\ trade_id_counter = 0
    /\ active_risk_alerts = <<>>
    /\ ntx = 0
    /\ last = Idle(CurrentEngineState)
    /\ feed = NewProvider
    /\ klines = NewAggregator
    /\ response = NoResponse
    /\ snapshots = {}
    /\ event_loop = NewEventLoop
    /\ simulation_components = NoComponents
    /\ rsi = NoRSIStrategy
    /\ \E w \in Windows : strategy = NewStrategy(w[1], w[2], TRUE)
    /\ twin = NoTwin
    /\ signals = <<>>

\* the event dict of the strategy as handle_signal_event reads it
EngineEvent(event) ==
    [signal |-> event.signal, symbol |-> event.symbol,
     price |-> Some(event.price), timestamp |-> event.timestamp.t]

\* signal_callback(event) for each event sent, with
\* signal_callback = trading_engine.handle_signal_event
RECURSIVE Deliver(_, _, _, _)
Deliver(es, cfg, market, sent) ==
    IF sent = <<>> THEN es
    ELSE Deliver(handle_signal_event(es, cfg, market, EngineEvent(Head(sent))).es,
                 cfg, market, Tail(sent))

\* one tick of the feed for the strategy's symbol: on_new_tick, and inside it
\* the engine's handling of the event sent
EndToEndTick ==
    /\ Len(signals) < MaxScenarioTicks
    /\ \E price \in ScenarioPrices, timestamp \in ClockTimestamps :
        \E st \in {on_new_tick(strategy, StrategySymbol, Some(price), timestamp)} :
        \E es \in {Deliver(CurrentEngineState, engine_config, market_prices,
                           st.tick.sent)} :
            /\ strategy' = st
            /\ portfolio' = es.portfolio
            /\ trade_log' = es.trade_log
            /\ trade_id_counter' = es.trade_id_counter
            /\ active_risk_alerts' = es.active_risk_alerts
            /\ ntx' = Len(es.trade_log)
            /\ signals' = Append(signals, [price |-> price,
                                           signal |-> st.current_signal,
                                           delivered |-> st.tick.sent])
    /\ UNCHANGED <<market_prices, engine_config, last, feed, klines, twin, rsi, simulation_components, event_loop, snapshots, response>>

NextEndToEnd == EndToEndTick

SpecEndToEnd == InitEndToEnd /\ [][NextEndToEnd]_vars

----------------------------------------------------------------------------
(* Specification of two moving-average strategies with the same windows that
   receive the same prices, up to MaxTwinTicks of them, each tick with a
   timestamp of its own *)

MaxTwinTicks == 3

InitTwins ==
    /\ portfolio = NewPortfolio(0, FALSE)
    /\ market_prices = [s \in Symbols |-> None]
    /\ engine_config = DefaultEngineConfig
    /\ trade_log = <<>>
    /\ trade_id_counter = 0
    /\ active_risk_alerts = <<>>
    /\ ntx = 0
    /\ last = Idle(CurrentEngineState)
    /\ feed = NewProvider
    /\ klines = NewAggregator
    /\ response = NoResponse
    /\ snapshots = {}
    /\ event_loop = NewEventLoop
    /\ simulation_components = NoComponents
    /\ rsi = NoRSIStrategy
    /\ signals = <<>>
    /\ \E w \in Windows, v1 \in BOOLEAN, v2 \in BOOLEAN :
          /\ strategy = [NewStrategy(w[1], w[2], TRUE) EXCEPT !.verbose = v1]
          /\ twin = [NewStrategy(w[1], w[2], TRUE) EXCEPT !.verbose = v2]

TwinTick ==
    /\ Len(signals) < MaxTwinTicks
    /\ \E price \in StrategyPrices, t1 \in AnyTimestamps, t2 \in AnyTimestamps :
        \E st \in {on_new_tick(strategy, StrategySymbol, price, t1)} :
          /\ strategy' = st
          /\ twin' = on_new_tick(twin, StrategySymbol, price, t2)
          /\ signals' = Append(signals, [price |-> price,
                                         signal |-> st.current_signal,
                                         delivered |-> st.tick.sent])
    /\ UNCHANGED <<portfolio, market_prices, engine_config, trade_log,
                   trade_id_counter, active_risk_alerts, ntx, last, feed,
                   klines, rsi, simulation_components, event_loop, snapshots, response>>

NextTwins == TwinTick

SpecTwins == InitTwins /\ [][NextTwins]_vars

----------------------------------------------------------------------------
(* Specification of the RSI strategy: a strategy whose signal_callback is the
   engine's handle_signal_event receives up to MaxRSITicks ticks for its
   symbol, and ticks for another symbol *)

MaxRSITicks == 4

InitRSI ==
    /\ \E c \in EngineCashValues : portfolio = NewPortfolio(c, FALSE)
    /\ market_prices = [s \in Symbols |-> Some(5)]
    /\ \E q \in FixedTradeQuantities, rp \in RiskParameterChoices, cb \in BOOLEAN :
          engine_config = [fixed_trade_quantity |-> q, risk_parameters |-> rp,
                           has_callback |-> cb]
    /\ trade_log = <<>>
    /\ trade_id_counter = 0
    /\ active_risk_alerts = <<>>
    /\ ntx = 0
    /\ last = Idle(CurrentEngineState)
    /\ feed = NewProvider
    /\ klines = NewAggregator
    /\ response = NoResponse
    /\ snapshots = {}
    /\ event_loop = NewEventLoop
    /\ simulation_components = NoComponents
    /\ strategy = NewStrategy(1, 2, TRUE)
    /\ twin = NoTwin
    /\ signals = <<>>
    /\ \E period \in RSIPeriods, thresholds \in RSIThresholds :
          rsi = NewRSIStrategy(period, thresholds[1], thresholds[2])

\* one tick of the feed: on_new_tick, and inside it the engine's handling of
\* the event sent
RSIOnNewTick ==
    /\ rsi.ticks_received < MaxRSITicks
    /\ \E symbol \in TickSymbols, price \in RSIPrices,
          timestamp \in ClockTimestamps, calculated \in RSIValues :
        \E st \in {rsi_on_new_tick(rsi, symbol, price, timestamp, calculated,
                                   portfolio, trade_log)} :
        \E es \in {Deliver(CurrentEngineState, engine_config, market_prices,
                           st.tick.sent)} :
            /\ rsi' = st
            /\ portfolio' = es.portfolio
            /\ trade_log' = es.trade_log
            /\ trade_id_counter' = es.trade_id_counter
            /\ active_risk_alerts' = es.active_risk_alerts
            /\ ntx' = Len(es.trade_log)
    /\ UNCHANGED <<market_prices, engine_config, last, feed, klines, strategy,
                   twin, signals, simulation_components, event_loop,
                   snapshots, response>>

NextRSI == RSIOnNewTick

SpecRSI == InitRSI /\ [][NextRSI]_vars

----------------------------------------------------------------------------
(* Specification of the simulation control: after startup_event, with or
   without a restored run, requests arrive and the event loop runs its ready
   steps in order *)

InitApi ==
    /\ portfolio = NewPortfolio(0, FALSE)
    /\ market_prices = [s \in Symbols |-> None]
    /\ engine_config = DefaultEngineConfig
    /\ trade_log = <<>>
    /\ trade_id_counter = 0
    /\ active_risk_alerts = <<>>
    /\ ntx = 0
    /\ last = Idle(CurrentEngineState)
    /\ feed = NewProvider
    /\ klines = NewAggregator
    /\ strategy = NewStrategy(1, 2, TRUE)
    /\ twin = NoTwin
    /\ signals = <<>>
    /\ rsi = NoRSIStrategy
    /\ \/ /\ simulation_components = NoComponents
          /\ event_loop = NewEventLoop
          /\ snapshots = {}
       \/ \E strategy_info \in StrategyIds :
            LET state_data ==
                    Snapshot(1, [NoComponents EXCEPT !.portfolio = 1, !.engine = 1,
                                                     !.strategy_info = strategy_info],
                             "periodic")
            IN  /\ simulation_components = RestoredComponents(state_data)
                /\ event_loop = [NewEventLoop EXCEPT !.next_run = 2]
                /\ snapshots = {state_data}
    /\ response = NoResponse

NextApi ==
    \/ RequestArrives
    \/ StartSimulation
    \/ StopSimulationApi
    \/ ResumeSimulation
    \/ PeriodicSaveTask
    \/ FinalSaveTask
    \/ SleepElapses

SpecApi == InitApi /\ [][NextApi]_vars

----------------------------------------------------------------------------
(* Properties of the tick provider, checked under SpecFeed *)

\* the threads that are inside _tick_loop
RunningLoops == {t \in LoopIds : is_alive(feed, t)}

\* C19: start and stop are idempotent: across any sequence of start() and
\* stop() calls at most one generation loop is running at any time; a start()
\* while running launches no second loop, and a stop() while stopped does
\* nothing.
C19_AtMostOneLoop ==
    /\ Cardinality(RunningLoops) <= 1
    /\ (feed.call.op = "start" /\ feed.call.was_running) =>
          (feed.nloops = feed.call.nloops_before
           /\ feed.thread = feed.call.thread_before /\ feed.running)
    /\ (feed.call.op = "stop" /\ ~feed.call.was_running) =>
          (feed.nloops = feed.call.nloops_before
           /\ feed.thread = feed.call.thread_before
           /\ ~feed.running /\ feed.caller = "idle")

\* stop() has returned and no start() has been called since
StopReturned == feed.call.op = "stop" /\ feed.caller = "idle"

\* C20: when stop() returns the generation loop has observed the cancellation
\* and exited: whatever time the subscriber callbacks take, after stop() has
\* returned no thread is generating a tick or inside or about to invoke a
\* subscriber callback.
C20_StopWaitsForLoopExit == StopReturned => RunningLoops = {}

\* the threads that are back from _notify_subscribers with a tick delivered
Delivered == {t \in LoopIds : feed.loops[t].pc = "notified"}

\* no callback of the list the delivery began with was unsubscribed during it
NoneUnsubscribed(at) == at.stable = Range(at.snap)

(* C21: when a subscriber callback raises while a tick is delivered, the
   subscribers after it in the list still receive the tick, and the thread
   does not leave the tick loop because of the exception: it goes on to the
   next symbol and the next round. *)
C21_CallbackFaultIsolated ==
    \A t \in LoopIds :
        /\ (t \in Delivered /\ feed.loops[t].raised # {}
              /\ NoneUnsubscribed(feed.loops[t]))
           => SubSeq(feed.loops[t].got, 1, Len(feed.loops[t].snap))
                 = feed.loops[t].snap
        /\ feed.loops[t].pc = "exited" => feed.loops[t].raised = {}

C21_Witness ==
    \E t \in Delivered :
        /\ feed.loops[t].snap = <<"a", "b">>
        /\ "a" \in feed.loops[t].raised
        /\ feed.loops[t].got = <<"a", "b">>

\* the threads that are delivering or have just delivered a tick of a symbol
Delivering(i) ==
    {t \in LoopIds : feed.loops[t].pc \in {"callback", "notified"}
                     /\ feed.loops[t].i = i}

\* the position of x in the list seq, 0 when it is not there
PositionIn(seq, x) ==
    IF x \in Range(seq) THEN CHOOSE j \in 1..Len(seq) : seq[j] = x ELSE 0

\* the callbacks of a delivery were invoked in the order of the list it began with
InSubscriptionOrder(at) ==
    \A m, n \in 1..Len(at.got) :
        (m < n /\ at.got[m] \in Range(at.snap) /\ at.got[n] \in Range(at.snap))
        => PositionIn(at.snap, at.got[m]) < PositionIn(at.snap, at.got[n])

(* C22: the subscribers of a symbol are invoked for a tick in subscription
   order, no subscriber that stays subscribed misses a tick, and a tick of a
   symbol is dispatched only when the delivery of the previous tick of that
   symbol is over: at most one delivery per symbol is in progress. *)
C22_OrderedUnbatchedDelivery ==
    /\ \A i \in 1..Len(SymbolsConfig) : Cardinality(Delivering(i)) <= 1
    /\ \A t \in LoopIds : InSubscriptionOrder(feed.loops[t])
    /\ \A t \in Delivered : feed.loops[t].stable \subseteq Range(feed.loops[t].got)

\* how many times x occurs in seq
Count(seq, x) == Cardinality({j \in 1..Len(seq) : seq[j] = x})

(* C23: a tick is delivered exactly once to every callback that was subscribed
   when its dispatch began and stayed subscribed, whatever subscribe() and
   unsubscribe() calls are made while the dispatch is in progress. *)
C23_ExactlyOncePerSubscriber ==
    \A t \in Delivered :
        \A c \in feed.loops[t].stable : Count(feed.loops[t].got, c) = 1

(* C24: subscribe() for a symbol that is not configured creates no entry in
   the subscriber table: the table only has the configured symbols. *)
C24_UnconfiguredSymbolRejected ==
    DOMAIN feed.subscribers \subseteq Range(SymbolsConfig)

----------------------------------------------------------------------------
(* Properties of the bar aggregator, checked under SpecKlines *)

\* the interval strings of the calls that are a positive integer followed by
\* a known unit, with their duration in seconds
KnownDurations == (<<"3", "S">> :> 3)

\* the start of the bucket of duration d that timestamp falls into
BucketStart(timestamp, d) == timestamp - (timestamp % d)

RECURSIVE VolumeSum(_)
VolumeSum(ticks) ==
    IF ticks = <<>> THEN 0
    ELSE (IF Head(ticks).volume.ok THEN Head(ticks).volume.price ELSE 0)
         + VolumeSum(Tail(ticks))

StrictlyIncreasing(ticks) ==
    \A n \in 1..(Len(ticks) - 1) : ticks[n].timestamp < ticks[n + 1].timestamp

\* the keys with a well-formed interval that have a current bar
GoodKeys ==
    {key \in DOMAIN klines.current_klines : key[2] \in DOMAIN KnownDurations}

(* C25: for the ticks of one (symbol, interval) key that went into the current
   bar with strictly increasing timestamps, the bar has open = the first
   tick's price, close = the last tick's price, high and low = the largest and
   the smallest tick price, volume = the sum of the tick volumes, and its
   start time is the start of the bucket of every one of these ticks. *)
C25_BarFoldsItsTicks ==
    \A key \in GoodKeys :
        LET ticks == klines.folded[key]
            bar == klines.current_klines[key]
        IN  StrictlyIncreasing(ticks) =>
              /\ bar.open = ticks[1].price
              /\ bar.close = ticks[Len(ticks)].price
              /\ \A n \in 1..Len(ticks) : ticks[n].price <= bar.high
              /\ \E n \in 1..Len(ticks) : ticks[n].price = bar.high
              /\ \A n \in 1..Len(ticks) : ticks[n].price >= bar.low
              /\ \E n \in 1..Len(ticks) : ticks[n].price = bar.low
              /\ bar.volume = VolumeSum(ticks)
              /\ \A n \in 1..Len(ticks) :
                    bar.time = BucketStart(ticks[n].timestamp,
                                           KnownDurations[key[2]])

C25_Witness ==
    \E key \in GoodKeys :
        LET ticks == klines.folded[key]
            bar == klines.current_klines[key]
        IN  /\ Len(ticks) = 3
            /\ StrictlyIncreasing(ticks)
            /\ <<ticks[1].price, ticks[2].price, ticks[3].price>> = <<2, 3, 1>>
            /\ ~ticks[2].volume.ok
            /\ bar.volume = 4

\* the key of the last call
LastKey == <<klines.call.symbol, klines.call.interval_str>>

\* the last call was update_with_tick with a well-formed interval, for a key
\* whose bar was of another bucket than the tick's
LastTickLeftBucket ==
    /\ klines.call.op = "update_with_tick"
    /\ klines.call.interval_str \in DOMAIN KnownDurations
    /\ klines.call.time_before.ok
    /\ klines.call.time_before.price
          # BucketStart(klines.folded[LastKey][Len(klines.folded[LastKey])].timestamp,
                        KnownDurations[klines.call.interval_str])

(* C26: a tick whose bucket is not the bucket of the key's current bar
   replaces that bar by a fresh one: start time = the tick's bucket, open =
   high = low = close = the tick's price, volume = the tick's volume. *)
C26_NewBucketStartsFreshBar ==
    LastTickLeftBucket =>
        LET tick == klines.folded[LastKey][Len(klines.folded[LastKey])]
            bar == klines.current_klines[LastKey]
        IN  /\ bar.time = BucketStart(tick.timestamp,
                                      KnownDurations[klines.call.interval_str])
            /\ bar.open = tick.price
            /\ bar.high = tick.price
            /\ bar.low = tick.price
            /\ bar.close = tick.price
            /\ bar.volume = (IF tick.volume.ok THEN tick.volume.price ELSE 0)

C26_Witness ==
    /\ LastTickLeftBucket
    /\ klines.nticks = 3
    /\ klines.call.time_before = Some(0)
    /\ klines.current_klines[LastKey].time = 3
    /\ klines.current_klines[LastKey].volume = 0

(* C27: update_with_tick with an interval string that is not a positive
   integer followed by a known unit creates or modifies no bar. *)
C27_MalformedIntervalRejected ==
    [][(/\ klines'.call.op = "update_with_tick"
        /\ klines'.call.interval_str \notin DOMAIN KnownDurations)
       => klines'.current_klines = klines.current_klines]_vars

----------------------------------------------------------------------------
(* Properties of the moving-average strategy, checked under SpecStrategy *)

\* the last call was on_new_tick with a tick of the strategy's symbol that
\* carries a price
TickTaken ==
    /\ strategy.tick.op = "on_new_tick"
    /\ strategy.tick.symbol = StrategySymbol
    /\ strategy.tick.price.ok

(* C28: the signal callback is invoked only on a tick that changes the signal
   value (the warm-up to HOLD transition is such a change); a tick that leaves
   the signal value the same sends no event. *)
C28_EventOnlyOnSignalChange ==
    (strategy.tick.op = "on_new_tick" /\ strategy.tick.sent # <<>>)
    => strategy.current_signal # strategy.tick.signal_before

\* the mean of the last n of prices is less than the mean of the last m
MeanLess(prices, n, m) ==
    SeqSum(LastN(prices, n)) * m < SeqSum(LastN(prices, m)) * n

\* the history was full before the last tick, so a previous pair of moving
\* averages exists: the averages of the history before the tick
HadPreviousPair == Len(strategy.tick.prices_before) = strategy.long_window

(* C29: once the history is full and a previous pair of moving averages
   exists, the signal after a tick is BUY exactly when previous shortMA <=
   previous longMA and shortMA > longMA, SELL exactly when previous shortMA >=
   previous longMA and shortMA < longMA, and otherwise the signal before the
   tick; shortMA and longMA are the means of the last short_window and
   long_window prices. *)
C29_CrossoverDecidesSignal ==
    (TickTaken /\ HadPreviousPair) =>
        LET s == strategy.short_window
            l == strategy.long_window
            before == strategy.tick.prices_before
            now == strategy.prices
            buy == ~MeanLess(before, l, s) /\ MeanLess(now, l, s)
            sell == ~MeanLess(before, s, l) /\ MeanLess(now, s, l)
        IN  /\ strategy.short_ma = MA(SeqSum(LastN(now, s)), s)
            /\ strategy.long_ma = MA(SeqSum(LastN(now, l)), l)
            /\ buy => strategy.current_signal = "BUY"
            /\ sell => strategy.current_signal = "SELL"
            /\ (~buy /\ ~sell)
               => strategy.current_signal = strategy.tick.signal_before

C29_Witness ==
    /\ TickTaken
    /\ HadPreviousPair
    /\ strategy.has_callback
    /\ strategy.short_window = 2
    /\ strategy.tick.signal_before = "BUY"
    /\ strategy.current_signal = "SELL"
    /\ strategy.prev_short_ma = strategy.prev_long_ma

(* C30: while fewer than long_window prices have been received the signal is
   WARMING_UP, no average is computed and no event is sent; the tick that
   fills the history for the first time makes the signal HOLD and sends HOLD
   to the signal callback, never BUY or SELL; the history never holds more
   than long_window prices. *)
C30_WarmUpThenHold ==
    /\ Len(strategy.prices) <= strategy.long_window
    /\ Len(strategy.prices) < strategy.long_window
       => /\ strategy.current_signal = "WARMING_UP"
          /\ strategy.tick.sent = <<>>
          /\ ~strategy.short_ma.ok /\ ~strategy.long_ma.ok
    /\ (TickTaken
          /\ Len(strategy.tick.prices_before) = strategy.long_window - 1
          /\ Len(strategy.prices) = strategy.long_window)
       => /\ strategy.current_signal = "HOLD"
          /\ strategy.has_callback
             => strategy.tick.sent
                  \in {<<SignalEventForCallback("HOLD", strategy.tick.price.price, t)>> :
                          t \in ClockTimestamps}

C30_Witness ==
    /\ TickTaken
    /\ strategy.long_window = 3
    /\ strategy.tick.prices_before = <<1, 2>>
    /\ strategy.prices = <<1, 2, 3>>
    /\ strategy.tick.sent = <<SignalEventForCallback("HOLD", 3, Stamp(7, TRUE))>>

----------------------------------------------------------------------------
(* Further properties of the ledger, checked under Spec *)

\* the sum over the holdings of quantity x average cost
RECURSIVE CostBasis(_)
CostBasis(h) ==
    IF h = <<>> THEN RInt(0)
    ELSE RAdd(RScale(Head(h).average_cost_price, Head(h).quantity),
              CostBasis(Tail(h)))

\* cash + cost basis of the holdings - realized P&L
LedgerBalance(pf) ==
    RSub(RAdd(RInt(pf.cash), CostBasis(pf.holdings)), pf.realized_pnl)

\* the last call was a SELL that record_transaction accepted
LastSellAccepted == LastSell /\ last.ret.ok

(* C37: cash + sum over the holdings of quantity x average cost - realized
   P&L is the initial cash after every accepted or refused transaction; an
   accepted SELL of q shares at price p adds (p - average cost) x q to the
   realized P&L and q x p to cash and leaves the average cost of the position
   as it was. *)
C37_AccountingIdentity ==
    /\ LedgerBalance(portfolio) \in {RInt(c) : c \in InitialCashValues}
    /\ LedgerBalance(portfolio) = LedgerBalance(last.before)
    /\ LastSellAccepted =>
          LET a == last.args
              held == PositionOf(last.before.holdings, a.symbol)
          IN  /\ portfolio.realized_pnl
                   = RAdd(last.before.realized_pnl,
                          RSub(RInt(a.price * a.quantity),
                               RScale(held.average_cost_price, a.quantity)))
              /\ portfolio.cash = last.before.cash + a.quantity * a.price
              /\ HasPosition(portfolio.holdings, a.symbol)
                 => PositionOf(portfolio.holdings, a.symbol).average_cost_price
                       = held.average_cost_price

C37_Witness ==
    /\ LastSellAccepted
    /\ HasPosition(portfolio.holdings, last.args.symbol)
    /\ PositionOf(portfolio.holdings, last.args.symbol).quantity > 0
    /\ PositionOf(portfolio.holdings, last.args.symbol).average_cost_price.d > 1
    /\ portfolio.realized_pnl.n < 0

----------------------------------------------------------------------------
(* Further properties of the engine, checked under SpecEngine *)

\* the last signal was handled by risk evaluations alone: no trade was
\* attempted
LastOnlyEvaluated ==
    /\ LastEvaluated
    /\ last.ret.outcome \in {"hold", "unknown", "vetoed"}

(* C38: a risk evaluation by the engine changes only the active alerts and the
   peak value: cash, the holdings with their quantities and average costs,
   realized P&L, the trade log and the trade-id counter are after the
   evaluation what they were before it, and the peak value does not fall. *)
C38_EvaluationFrame ==
    LastOnlyEvaluated =>
        /\ portfolio.cash = last.before.cash
        /\ portfolio.holdings = last.before.holdings
        /\ portfolio.realized_pnl = last.before.realized_pnl
        /\ portfolio.verbose = last.before.verbose
        /\ portfolio.peak_portfolio_value >= last.before.peak_portfolio_value
        /\ trade_log = last.engine_before.trade_log
        /\ trade_id_counter = last.engine_before.trade_id_counter

C38_Witness ==
    /\ LastOnlyEvaluated
    /\ last.ret.outcome = "vetoed"
    /\ portfolio.holdings # <<>>
    /\ portfolio.peak_portfolio_value > last.before.peak_portfolio_value
    /\ active_risk_alerts # last.engine_before.active_risk_alerts

\* the engine was constructed without current_price_provider_callback
WithoutCallback == ~engine_config.has_callback

\* the trade of the last signal: its quantity, price and cost
LastQuantity == engine_config.fixed_trade_quantity
LastPrice == LastEvent.price.price

\* the portfolio before the last signal could not pay for the BUY, or did not
\* hold the shares of the SELL
LackedCashOrShares ==
    IF Upper(LastEvent.signal) = "BUY"
    THEN last.before.cash < LastQuantity * LastPrice
    ELSE QuantityHeld(last.before.holdings, LastEvent.symbol) < LastQuantity

\* without a price callback nothing is evaluated or vetoed, and a BUY or SELL
\* signal is answered by the portfolio alone
UnguardedTrading ==
    /\ active_risk_alerts = <<>>
    /\ LastHandled => last.ret.outcome # "vetoed"
    /\ LastTradeSignal =>
          /\ last.ret.outcome \in {"traded", "refused"}
          /\ trade_id_counter = last.engine_before.trade_id_counter + 1
          /\ portfolio = LastApplyTransaction.pf
          /\ last.ret.outcome = "traded" <=> LastApplyTransaction.ret

\* C39 as stated: an engine without a price callback never evaluates risk (no
\* alert, no veto), hands every BUY or SELL signal to the portfolio, and the
\* only refusals are for insufficient cash or insufficient shares.
C39_NoCallbackNoRiskGate ==
    WithoutCallback =>
        /\ UnguardedTrading
        /\ (LastTradeSignal /\ last.ret.outcome = "refused") => LackedCashOrShares

(* C39 amended: as above, and the refusals are those of the portfolio: a
   non-positive price or quantity, insufficient cash or insufficient
   shares. *)
C39_NoCallbackOnlyLedgerRefuses ==
    WithoutCallback =>
        /\ UnguardedTrading
        /\ (LastTradeSignal /\ last.ret.outcome = "refused")
           => (LastPrice <= 0 \/ LastQuantity <= 0 \/ LackedCashOrShares)
        /\ (LastTradeSignal /\ last.ret.outcome = "traded")
           => (LastPrice > 0 /\ LastQuantity > 0 /\ ~LackedCashOrShares)

\* a BUY that takes more than 40% of the portfolio into one symbol is traded
\* by an engine without callback
C39_Witness ==
    /\ WithoutCallback
    /\ LastCompleteSignal("BUY")
    /\ last.ret.outcome = "traded"
    /\ last.before.holdings = <<>>
    /\ LastQuantity * LastPrice * 100 > 40 * last.before.cash
    /\ trade_log # <<>>

----------------------------------------------------------------------------
(* Further properties of the bar aggregator, checked under SpecKlines *)

\* low <= open <= high and low <= close <= high
WellFormedBar(bar) ==
    /\ bar.low <= bar.open /\ bar.open <= bar.high
    /\ bar.low <= bar.close /\ bar.close <= bar.high

\* the bar of key in aggregator agg starts at the bucket start of the most
\* recent tick of the key: for a well-formed interval floor(timestamp /
\* duration) x duration, and for any interval not after the tick
StartsAtBucketOfLastTick(agg, key) ==
    LET tick == agg.folded[key][Len(agg.folded[key])]
        bar == agg.current_klines[key]
    IN  /\ bar.time <= tick.timestamp
        /\ key[2] \in DOMAIN KnownDurations
           => bar.time = BucketStart(tick.timestamp, KnownDurations[key[2]])

(* C40: after every update_with_tick, reset_symbol_interval and reset_all
   call, every stored bar has low <= open <= high and low <= close <= high and
   starts at the bucket start of the most recent tick of its key; a call for
   one key leaves the bars of all other keys as they were; after
   reset_symbol_interval there is no bar for the key and after reset_all there
   is no bar at all. *)
C40_BarsWellFormedAndIndependent ==
    [][/\ \A key \in DOMAIN klines'.current_klines :
             /\ WellFormedBar(klines'.current_klines[key])
             /\ StartsAtBucketOfLastTick(klines', key)
       /\ klines'.call.op \in {"update_with_tick", "reset_symbol_interval"}
          => \A key \in DOMAIN klines.current_klines :
                key # <<klines'.call.symbol, klines'.call.interval_str>>
                => /\ key \in DOMAIN klines'.current_klines
                   /\ klines'.current_klines[key] = klines.current_klines[key]
       /\ klines'.call.op = "reset_symbol_interval"
          => <<klines'.call.symbol, klines'.call.interval_str>>
                \notin DOMAIN klines'.current_klines
       /\ klines'.call.op = "reset_all" => DOMAIN klines'.current_klines = {}
      ]_vars

----------------------------------------------------------------------------
(* Properties of the end-to-end run, checked under SpecEndToEnd *)

ScenarioTicks == <<100, 102, 105, 103, 108>>

Fed == [i \in 1..Len(signals) |-> signals[i].price]
SignalAfterTick == [i \in 1..Len(signals) |-> signals[i].signal]
KindsDelivered ==
    [i \in 1..Len(signals) |->
        [j \in 1..Len(signals[i].delivered) |-> signals[i].delivered[j].signal]]

ScenarioRun ==
    /\ strategy.short_window = 2
    /\ strategy.long_window = 3
    /\ Fed = ScenarioTicks

\* C31: with initial cash 100000 and MA(2, 3) wired to the engine, the ticks
\* 100, 102, 105, 103, 108 leave the signal WARMING_UP, WARMING_UP, HOLD,
\* HOLD, HOLD after the respective ticks; exactly one event, the HOLD of the
\* third tick, reaches the engine; the trade log is empty and cash is 100000
C31_EndToEndScenario ==
    ScenarioRun
    => /\ SignalAfterTick = <<"WARMING_UP", "WARMING_UP", "HOLD", "HOLD", "HOLD">>
       /\ KindsDelivered = << <<>>, <<>>, <<"HOLD">>, <<>>, <<>> >>
       /\ trade_log = <<>>
       /\ portfolio.cash = initial_cash
       /\ portfolio.holdings = <<>>

C31_Witness ==
    /\ ScenarioRun
    /\ strategy.tick.op = "on_new_tick"
    /\ strategy.prices = <<105, 103, 108>>
    /\ strategy.current_signal = "HOLD"

----------------------------------------------------------------------------
(* Properties of two strategies fed alike, checked under SpecTwins *)

KindsSent(st) == [j \in 1..Len(st.tick.sent) |-> st.tick.sent[j].signal]

\* C32: two generators with the same windows that are fed the same price
\* sequence emit the same signal kinds at the same ticks, whatever the
\* timestamps of the ticks and whatever their verbose settings
C32_SameSignalsWhateverTimestamps ==
    /\ strategy.current_signal = twin.current_signal
    /\ KindsSent(strategy) = KindsSent(twin)

----------------------------------------------------------------------------
(* Properties of the RSI strategy, checked under SpecRSI *)

RSITickTaken == rsi.tick.op = "on_new_tick" /\ rsi.tick.symbol = StrategySymbol
PostWarmUp == RSITickTaken /\ rsi.ticks_received >= rsi.period + 1
BothDefined == rsi.previous_rsi.ok /\ rsi.current_rsi.ok
KindSent == rsi.tick.sent[1].signal

\* C33: on a tick after the warm-up whose previous and current RSI are
\* defined, the signal is BUY exactly when the previous RSI is at most the
\* oversold threshold and the current one above it, SELL exactly when the
\* previous RSI is at least the overbought threshold and the current one
\* below it, and HOLD otherwise; so an RSI that has fallen below the
\* overbought threshold and stays below it gives no further SELL
C33_ThresholdCrossingDecidesSignal ==
    (PostWarmUp /\ BothDefined)
    => LET previous_rsi == rsi.previous_rsi.value
           current_rsi == rsi.current_rsi.value
           buy == previous_rsi <= rsi.oversold_threshold
                  /\ current_rsi > rsi.oversold_threshold
           sell == previous_rsi >= rsi.overbought_threshold
                   /\ current_rsi < rsi.overbought_threshold
       IN  /\ Len(rsi.tick.sent) = 1
           /\ KindSent = "BUY" <=> buy
           /\ KindSent = "SELL" <=> sell
           /\ KindSent = "HOLD" <=> (~buy /\ ~sell)
           /\ (previous_rsi < rsi.overbought_threshold) => KindSent # "SELL"

C33_Witness ==
    /\ PostWarmUp
    /\ rsi.overbought_threshold = 70
    /\ rsi.previous_rsi = RSI(80)
    /\ rsi.current_rsi = RSI(50)
    /\ KindSent = "SELL"

NoPortfolioAction ==
    /\ trade_log = rsi.tick.trade_log_before
    /\ portfolio.cash = rsi.tick.portfolio_before.cash
    /\ portfolio.holdings = rsi.tick.portfolio_before.holdings
    /\ portfolio.realized_pnl = rsi.tick.portfolio_before.realized_pnl

\* C34: the RSI generator sends no signal during its first period ticks and
\* one signal on every tick from tick period + 1 on; that signal is BUY, SELL
\* or HOLD only when the previous and the current RSI are both defined, and
\* otherwise it is an error signal with a diagnostic message, on which the
\* engine makes no trade
C34_ErrorSignalWhenRsiUndefined ==
    /\ (RSITickTaken /\ rsi.ticks_received <= rsi.period)
       => rsi.tick.sent = <<>> /\ NoPortfolioAction
    /\ PostWarmUp
       => /\ Len(rsi.tick.sent) = 1
          /\ KindSent \in {"BUY", "SELL", "HOLD"} => BothDefined
          /\ ~BothDefined
             => /\ KindSent = "ERROR_RSI_CALC"
                /\ rsi.tick.sent[1].details.message # ""
                /\ NoPortfolioAction

C34_Witness ==
    /\ PostWarmUp
    /\ ~rsi.current_rsi.ok
    /\ KindSent = "ERROR_RSI_CALC"
    /\ portfolio.holdings # <<>>

----------------------------------------------------------------------------
(* Properties of the simulation control, checked under SpecApi *)

Retained(sc) ==
    [portfolio |-> sc.portfolio, engine |-> sc.engine, run_id |-> sc.run_id,
     strategy_info |-> sc.strategy_info,
     klines_aggregator |-> sc.klines_aggregator]

RejectedForRiskKey ==
    /\ response.op = "start"
    /\ response.request.risk_parameters = "unknown_key"
    /\ response.status = 400

\* C35: a start request with a risk-parameter key other than the three known
\* ones is rejected and changes nothing: the retained portfolio, engine, run
\* id, strategy info and bar aggregator are as they were before the request
C35_RejectedStartChangesNothing ==
    RejectedForRiskKey =>
        Retained(simulation_components) = Retained(response.before)

SavedFromItsOwnRun(snapshot) ==
    /\ from_dict(snapshot.portfolio_state) = snapshot.run_id
    /\ from_dict(snapshot.engine_state) = snapshot.run_id

\* C36: no snapshot that the periodic save task or the final save of a stop
\* writes under a run id holds the portfolio or engine of another run, and a
\* cancelled save task is done without a further save
C36_NoSaveAfterStopRace ==
    /\ \A snapshot \in snapshots :
          snapshot.by \in {"periodic", "final"} => SavedFromItsOwnRun(snapshot)
    /\ \A t \in 1..Len(event_loop.tasks) :
          event_loop.tasks[t].pc = "sleeping" => ~event_loop.tasks[t].must_cancel

====
